---- MODULE Spec2Model ----
(***************************************************************************)
(* The scoring and leaderboard core of the hackathon platform: the        *)
(* Submission and Event documents, the submission routes (create/update,  *)
(* vote, judge, delete), the event routes that touch the leaderboard, the *)
(* helper updateEventLeaderboard and the socket handlers joinEvent and    *)
(* requestLeaderboard.                                                     *)
(*                                                                         *)
(* Every route handler is an async function: it runs to its next await,   *)
(* where another request may run.  A handler is therefore a sequence of    *)
(* steps, one per awaited store operation, and a request in flight is a   *)
(* record of procs holding the handler's position and its local documents.*)
(*                                                                         *)
(* Documents are saved the way Mongoose's save() saves them: only the      *)
(* paths the handler changed are written; an array that was pushed to is   *)
(* written as a $push, which increments the document version __v without   *)
(* checking it; an array that was assigned, or an element changed by       *)
(* position, is written under the condition that __v is still the version  *)
(* that was loaded, and save() throws when no document matches.            *)
(*                                                                         *)
(* JavaScript numbers that may be fractional (scores, totals, averages)    *)
(* are exact rationals [n, d] in lowest terms.                             *)
(***************************************************************************)
EXTENDS Integers, Sequences, FiniteSets, TLC

\* ------------------------------------------------------------------ bounds

\* Requests started in one behaviour.
MaxReqs == 4

\* Requests started in a behaviour whose requests overlap.
MaxOverlapped == 3

\* Requests that may be in flight at the same time.
Procs == {1, 2, 3}

\* The slots used where two requests overlap.
Pair == {1, 2}

\* The teams of the event, and the ids the store hands out to submissions.
Teams == {"t1", "t2"}
SubIds == {1, 2}

\* Users who vote; the event's judge list; a user with no role.
Voters == {"u1", "u2"}
Judges == {"j1", "j2"}
Outsider == "x"
NoUser == "-"

\* The connected sockets, and the slot value of a request that is not a
\* socket's.
Sockets == {"s1", "s2"}
NoSocket == "-"

\* Values requests carry.
VoteInputs == {4, 5, 6}

\* req.body.score of a vote request whose body carries no score (undefined).
NoScore == -1

\* The scores of vote requests where one may come without a score.
BallotInputs == {NoScore, 0, 3, 6}

\* The scores cast where votes race with deletions.
RacingVotes == {4, 5}
StatusInputs == {"draft", "submitted"}

\* --------------------------------------------------------------- rationals

RECURSIVE GCD(_, _)
GCD(a, b) == IF b = 0 THEN a ELSE GCD(b, a % b)

Abs(x) == IF x < 0 THEN -x ELSE x

\* n/d in lowest terms, d > 0.
Norm(n, d) == LET g == GCD(Abs(n), d) IN [n |-> n \div g, d |-> d \div g]

Q(k) == [n |-> k, d |-> 1]
QAdd(a, b) == Norm(a.n * b.d + b.n * a.d, a.d * b.d)
QMulInt(a, k) == Norm(a.n * k, a.d)
QDivInt(a, k) == Norm(a.n, a.d * k)
QLess(a, b) == a.n * b.d < b.n * a.d
QMin(a, b) == IF QLess(b, a) THEN b ELSE a
QPos(a) == a.n > 0
Zero == Q(0)

\* ---------------------------------------------------------------- documents

\* Submission.metadata: a rating of 0 stands for an absent field (the code
\* tests the fields for truthiness); present is FALSE when the request body
\* carried no metadata at all.
NoMeta ==
  [present |-> FALSE, innovation |-> 0, technologies |-> 0, linesOfCode |-> 0,
   completeness |-> 0, documentation |-> 0, presentation |-> 0]

EmptyMeta == [NoMeta EXCEPT !.present = TRUE]

MetaInputs ==
  {NoMeta, [EmptyMeta EXCEPT !.innovation = 8], [EmptyMeta EXCEPT !.innovation = 6]}

\* The score lists a judge request carries: one record per criterion.
ScoreRec(c, s, j) == [criterion |-> c, score |-> s, judge |-> j]

JudgeInputs ==
  {<<>>, <<[criterion |-> "c1", score |-> Q(80)]>>,
   <<[criterion |-> "c1", score |-> Q(80)], [criterion |-> "c2", score |-> Q(60)]>>}

\* A Submission document; exists is FALSE for an id with no document.
NoDoc ==
  [exists |-> FALSE, team |-> "-", status |-> "draft", metadata |-> NoMeta,
   scores |-> <<>>, totalScore |-> Zero, averageScore |-> Zero,
   jstatus |-> "pending", votes |-> <<>>, publicVotes |-> Zero, v |-> 0]

\* new Submission({event, team, project, links, metadata, status, ...})
NewSubmission(team, status, metadata) ==
  [NoDoc EXCEPT !.exists = TRUE, !.team = team, !.status = status,
                !.metadata = metadata]

RECURSIVE SumScores(_)
SumScores(scores) ==
  IF scores = <<>> THEN Zero
  ELSE QAdd(Head(scores).score, SumScores(Tail(scores)))

RECURSIVE SumVotes(_)
SumVotes(votes) ==
  IF votes = <<>> THEN 0 ELSE Head(votes).score + SumVotes(Tail(votes))

\* The sum of the vote scores is a number: no record lacks its score.
Summable(votes) == \A i \in 1..Len(votes) : votes[i].score # NoScore

\* SubmissionSchema.pre('save').  With a record that has no score the sum of
\* the votes is NaN, which the Number path publicVotes does not accept: the
\* assignment fails its cast and the path keeps its value.
preSave(doc) ==
  LET d1 == IF Len(doc.scores) > 0
            THEN [doc EXCEPT !.totalScore = SumScores(doc.scores),
                             !.averageScore =
                               QDivInt(SumScores(doc.scores), Len(doc.scores))]
            ELSE doc
  IN IF Len(d1.votes) > 0 /\ Summable(d1.votes)
     THEN [d1 EXCEPT !.publicVotes = QDivInt(Q(SumVotes(d1.votes)), Len(d1.votes))]
     ELSE d1

\* The score list SubmissionSchema.methods.autoJudge builds from the metadata.
autoJudgeScores(m) ==
  (IF m.innovation # 0
     THEN <<ScoreRec("Innovation", Q(m.innovation * 10), NoUser)>> ELSE <<>>)
  \o (IF m.linesOfCode # 0
     THEN <<ScoreRec("Technical Complexity",
                     QAdd(QMin(Q(m.technologies * 10), Q(50)),
                          QMin(Norm(m.linesOfCode, 100), Q(50))), NoUser)>>
     ELSE <<>>)
  \o (IF m.completeness # 0
     THEN <<ScoreRec("Completeness", Q(m.completeness * 10), NoUser)>> ELSE <<>>)
  \o (IF m.documentation # 0
     THEN <<ScoreRec("Documentation", Q(m.documentation * 10), NoUser)>> ELSE <<>>)
  \o (IF m.presentation # 0
     THEN <<ScoreRec("Presentation", Q(m.presentation * 10), NoUser)>> ELSE <<>>)

\* if (!this.metadata) return: metadata is a nested path of the schema, for
\* which a Mongoose document returns an object whether or not any of its
\* fields is set, so the test finds metadata on every document.
HasMetadata(doc) == TRUE

\* An autoJudge that keeps the records already in the list.
autoJudgeAppending(doc) ==
  [doc EXCEPT !.scores = @ \o autoJudgeScores(doc.metadata), !.jstatus = "judged"]

\* The document autoJudge hands to save(): the list replaced, status judged.
autoJudge(doc) ==
  [doc EXCEPT !.scores = autoJudgeScores(doc.metadata), !.jstatus = "judged"]

\* ------------------------------------------------------- saving a document

\* What a handler did to voting.votes before save(): nothing, a push of a new
\* record, or a change of the score of the record at position i.
NoVoteOp == [op |-> "none", i |-> 0, user |-> NoUser, score |-> 0]
PushVote(u, s) == [op |-> "push", i |-> 0, user |-> u, score |-> s]
SetVote(i, s) == [op |-> "set", i |-> i, user |-> NoUser, score |-> s]

\* save() sends its update under the loaded version when an array was assigned
\* or an element was changed by position.
VersionChecked(vop, setScores) == setScores \/ vop.op = "set"

\* save() increments __v when an array was assigned or pushed to.
VersionInc(vop, setScores) == setScores \/ vop.op = "push"

\* A save() that sends every update without the version in its condition.
SaveMatchesUnversioned(stored, loaded, vop, setScores) == stored.exists

\* The update of save() matches a stored document.
SaveMatches(stored, loaded, vop, setScores) ==
  /\ stored.exists
  /\ VersionChecked(vop, setScores) => stored.v = loaded.v

\* The stored document after the update save() sends for a document that was
\* `loaded` and is now `doc`: changed scalar paths are $set, the arrays as above.
Saved(stored, loaded, doc, vop, setScores) ==
  [stored EXCEPT
     !.status = IF doc.status # loaded.status THEN doc.status ELSE @,
     !.metadata = IF doc.metadata # loaded.metadata THEN doc.metadata ELSE @,
     !.totalScore = IF doc.totalScore # loaded.totalScore THEN doc.totalScore ELSE @,
     !.averageScore =
        IF doc.averageScore # loaded.averageScore THEN doc.averageScore ELSE @,
     !.publicVotes =
        IF doc.publicVotes # loaded.publicVotes THEN doc.publicVotes ELSE @,
     !.jstatus = IF doc.jstatus # loaded.jstatus THEN doc.jstatus ELSE @,
     !.scores = IF setScores THEN doc.scores ELSE @,
     !.votes = CASE vop.op = "push" ->
                      Append(@, [user |-> vop.user, score |-> vop.score])
                 [] vop.op = "set" -> [@ EXCEPT ![vop.i].score = vop.score]
                 [] OTHER -> @,
     !.v = IF VersionInc(vop, setScores) THEN @ + 1 ELSE @]

\* The handler's own document after a successful save().
AfterSave(loaded, doc, vop, setScores) ==
  [doc EXCEPT !.v = IF VersionInc(vop, setScores) THEN loaded.v + 1 ELSE loaded.v]

\* ------------------------------------------------------------- ranking

Entry(team, id, total) ==
  [team |-> team, submission |-> id, totalScore |-> total, rank |-> 0]

\* An insertion that puts the new entry before the entries it ties with.
RECURSIVE InsertDescFirst(_, _)
InsertDescFirst(e, s) ==
  IF s = <<>> THEN <<e>>
  ELSE IF ~QLess(e.totalScore, Head(s).totalScore) THEN <<e>> \o s
  ELSE <<Head(s)>> \o InsertDescFirst(e, Tail(s))

\* Array.prototype.sort((a, b) => b.totalScore - a.totalScore): stable.
RECURSIVE InsertDesc(_, _)
InsertDesc(e, s) ==
  IF s = <<>> THEN <<e>>
  ELSE IF QLess(Head(s).totalScore, e.totalScore) THEN <<e>> \o s
  ELSE <<Head(s)>> \o InsertDesc(e, Tail(s))

RECURSIVE SortDesc(_)
SortDesc(s) ==
  IF s = <<>> THEN <<>>
  ELSE InsertDesc(s[Len(s)], SortDesc(SubSeq(s, 1, Len(s) - 1)))

\* A ranking in which an entry tied with the one before it takes its rank.
AssignRanksShared(s) ==
  [i \in 1..Len(s) |->
     [s[i] EXCEPT !.rank = IF i > 1 /\ s[i].totalScore = s[i - 1].totalScore
                            THEN i - 1 ELSE i]]

\* leaderboard.forEach((entry, index) => { entry.rank = index + 1; })
AssignRanks(s) == [i \in 1..Len(s) |-> [s[i] EXCEPT !.rank = i]]

\* The filter of updateEventLeaderboard.
Eligible(doc) == doc.status = "submitted" /\ QPos(doc.totalScore)

\* submission.judging.totalScore + (submission.voting.publicVotes * 10)
Combined(doc) == QAdd(doc.totalScore, QMulInt(doc.publicVotes, 10))

\* The populated event.submissions: the documents that exist, in list order.
RECURSIVE Populate(_, _)
Populate(ids, store) ==
  IF ids = <<>> THEN <<>>
  ELSE (IF store[Head(ids)].exists
          THEN <<[id |-> Head(ids), doc |-> store[Head(ids)]]>> ELSE <<>>)
       \o Populate(Tail(ids), store)

IsEligible(x) == Eligible(x.doc)

\* The entries updateEventLeaderboard pushes, in list order.
LeaderboardEntries(snap) ==
  LET el == SelectSeq(snap, IsEligible)
  IN [i \in 1..Len(el) |-> Entry(el[i].doc.team, el[i].id, Combined(el[i].doc))]

\* The leaderboard updateEventLeaderboard computes from the populated list.
RankedLeaderboard(snap) == AssignRanks(SortDesc(LeaderboardEntries(snap)))

\* submission.team._id throws when an eligible submission's team is gone.
TeamMissing(snap, tms) ==
  \E i \in 1..Len(snap) : Eligible(snap[i].doc) /\ ~tms[snap[i].doc.team]

\* ------------------------------------------------------------------ state

VARIABLES
  subs,     \* the Submission collection: id -> document
  nextId,   \* the id the next new Submission gets
  teams,    \* the Team collection: team -> the document exists
  event,    \* the Event document
  procs,    \* the requests in flight
  nreq,     \* requests started so far
  committed, \* history: the rankings of the states committed so far
  sockets,  \* the connected sockets: room membership and what was emitted to each
  teamDocs, \* the Team documents: members, invitations and version of each team
  connectedUsers, \* the connectedUsers map: user id -> socket id of its entry
  isOnline  \* User.isOnline of each user's document

vars == <<subs, nextId, teams, event, procs, nreq, committed, sockets,
          teamDocs, connectedUsers, isOnline>>

Organizer == "org"

\* event.maxTeamSize of the event of the model.
maxTeamSize == 2

\* The fields of a Team document the member routes use.  members lists the
\* users of the active member records (no route of the model stores a record
\* with another status), invitations the user and status of each invitation.
NoTeamDoc == [members |-> <<>>, invitations |-> <<>>, v |-> 0]

\* The teams as formed (new Team({leader, members: [leader]}): the user who
\* formed a team is its leader and its first active member), team t1 with one
\* invitation sent and not yet answered.
NewTeams ==
  [t \in Teams |->
     [NoTeamDoc EXCEPT
        !.members = <<IF t = "t1" THEN "l1" ELSE "l2">>,
        !.invitations = IF t = "t1" THEN <<[user |-> "u1", status |-> "pending"]>>
                        ELSE <<>>,
        !.v = IF t = "t1" THEN 1 ELSE 0]]

IdleProc ==
  [pc |-> "idle", kind |-> "-", sid |-> 0, team |-> "-", user |-> NoUser,
   score |-> 0, scores |-> <<>>, status |-> "-", metadata |-> NoMeta,
   prevStatus |-> "-", doc |-> NoDoc, ids |-> <<>>, evv |-> 0, snap |-> <<>>,
   lb |-> <<>>, i |-> 0, lbOk |-> FALSE, res |-> 0,
   hasLb |-> FALSE, parts |-> <<>>, sock |-> NoSocket,
   tdoc |-> NoTeamDoc, inv |-> 0, response |-> "-"]

\* A socket right after io.on('connection'): in no room, nothing emitted to it.
\* received lists the leaderboards emitted to the socket, each with the name
\* of its message and the version of the event document it was read from.
\* userId is socket.userId, set by 'authenticate'; open is FALSE once the
\* socket has disconnected.
Unconnected ==
  [s \in Sockets |-> [joined |-> FALSE, received |-> <<>>, userId |-> NoUser,
                      open |-> TRUE]]

Snapshot(name, lb, v) == [name |-> name, lb |-> lb, v |-> v]

\* A new event (judging.isAutomated defaults to true) with its teams formed and
\* no submission yet, in the judging phase, when votes are accepted.
NewEvent ==
  [status |-> "judging", isAutomated |-> TRUE, submissions |-> <<>>,
   leaderboard |-> <<>>, participants |-> <<>>, v |-> 0]

Init ==
  /\ subs = [id \in SubIds |-> NoDoc]
  /\ nextId = 1
  /\ teams = [t \in Teams |-> TRUE]
  /\ event = NewEvent
  /\ procs = [p \in Procs |-> IdleProc]
  /\ nreq = 0
  /\ committed = {<<>>}
  /\ sockets = Unconnected
  /\ teamDocs = NewTeams
  /\ connectedUsers = [u \in Voters |-> NoSocket]
  /\ isOnline = [u \in Voters |-> FALSE]

\* The response is sent: the handler's locals that no longer matter are dropped.
Respond(pr, code) ==
  [pr EXCEPT !.pc = "done", !.res = code, !.ids = <<>>, !.evv = 0, !.i = 0]

\* A request is admitted: the handler is entered in the free slot p.
Idle(p) == procs[p].pc = "idle"
Quiet == \A q \in Procs : Idle(q)

\* ------------------------------------------------ updateEventLeaderboard

\* const event = await Event.findById(eventId) ...
LbFind(p) ==
  /\ procs[p].pc = "lb_find"
  /\ procs' = [procs EXCEPT ![p] = [@ EXCEPT !.pc = "lb_populate",
                                     !.ids = event.submissions, !.evv = event.v]]
  /\ UNCHANGED <<subs, nextId, teams, event, nreq>>

\* A helper that clears the stored leaderboard when building the entries fails.
LbPopulateZeroing(p) ==
  /\ procs[p].pc = "lb_populate"
  /\ LET snap == Populate(procs[p].ids, subs)
     IN IF TeamMissing(snap, teams)
        THEN /\ procs' = [procs EXCEPT ![p] =
                  Respond([@ EXCEPT !.snap = snap, !.lbOk = FALSE], 200)]
             /\ event' = [event EXCEPT !.leaderboard = <<>>]
        ELSE /\ procs' = [procs EXCEPT ![p] =
                  [@ EXCEPT !.pc = "lb_save", !.snap = snap,
                            !.lb = RankedLeaderboard(snap)]]
             /\ event' = event
  /\ UNCHANGED <<subs, nextId, teams, nreq>>

\* ... .populate('submissions'), then the loop that builds the entries (with
\* its populate('team') reads), the sort and the ranks.  An exception is caught
\* by the helper, which returns [] to a caller that ignores the value.
LbPopulate(p) ==
  /\ procs[p].pc = "lb_populate"
  /\ LET snap == Populate(procs[p].ids, subs)
     IN procs' = [procs EXCEPT ![p] =
          IF TeamMissing(snap, teams)
          THEN Respond([@ EXCEPT !.snap = snap, !.lbOk = FALSE], 200)
          ELSE [@ EXCEPT !.pc = "lb_save", !.snap = snap,
                         !.lb = RankedLeaderboard(snap)]]
  /\ UNCHANGED <<subs, nextId, teams, event, nreq>>

\* A helper that adds the new entries to the stored ones instead of replacing
\* them.
LbSaveAppending(p) ==
  /\ procs[p].pc = "lb_save"
  /\ IF event.v = procs[p].evv
     THEN /\ event' = [event EXCEPT
               !.leaderboard = AssignRanks(@ \o procs[p].lb), !.v = @ + 1]
          /\ procs' = [procs EXCEPT ![p] = Respond([@ EXCEPT !.lbOk = TRUE], 200)]
     ELSE /\ event' = event
          /\ procs' = [procs EXCEPT ![p] = Respond([@ EXCEPT !.lbOk = FALSE], 200)]
  /\ UNCHANGED <<subs, nextId, teams, nreq>>

\* event.leaderboard = leaderboard; await event.save(): the array was assigned,
\* so the update carries the loaded version; a VersionError is caught like any
\* other exception.
LbSave(p) ==
  /\ procs[p].pc = "lb_save"
  /\ IF event.v = procs[p].evv
     THEN /\ event' = [event EXCEPT !.leaderboard = procs[p].lb, !.v = @ + 1]
          /\ procs' = [procs EXCEPT ![p] = Respond([@ EXCEPT !.lbOk = TRUE], 200)]
     ELSE /\ event' = event
          /\ procs' = [procs EXCEPT ![p] = Respond([@ EXCEPT !.lbOk = FALSE], 200)]
  /\ UNCHANGED <<subs, nextId, teams, nreq>>

\* ------------------------------------------------------- POST /:id/vote

\* A lookup that never finds the user's record.
NeverVoted(votes, u) == 0

FirstVoteOf(votes, u) ==
  IF \E i \in 1..Len(votes) : votes[i].user = u
  THEN CHOOSE i \in 1..Len(votes) :
         votes[i].user = u /\ \A k \in 1..(i - 1) : votes[k].user # u
  ELSE 0

\* score < 1 || score > 5: a comparison with undefined is false.
OutOfRange(score) == score # NoScore /\ (score < 1 \/ score > 5)

\* The range check and Submission.findById.
VoteFind(p, id, u, score) ==
  /\ Idle(p)
  /\ LET pr == [IdleProc EXCEPT !.kind = "vote", !.sid = id, !.user = u,
                                !.score = score]
     IN procs' = [procs EXCEPT ![p] =
          IF OutOfRange(score) THEN Respond(pr, 400)
          ELSE IF ~subs[id].exists THEN Respond(pr, 404)
          ELSE [pr EXCEPT !.pc = "vote_event", !.doc = subs[id]]]
  /\ UNCHANGED <<subs, nextId, teams, event>>

\* A handler that skips the voting-window check.
VoteEventUnchecked(p) ==
  /\ procs[p].pc = "vote_event"
  /\ procs' = [procs EXCEPT ![p] = [@ EXCEPT !.pc = "vote_save"]]
  /\ UNCHANGED <<subs, nextId, teams, event, nreq>>

\* Event.findById(submission.event) and the voting-window check.
VoteEvent(p) ==
  /\ procs[p].pc = "vote_event"
  /\ procs' = [procs EXCEPT ![p] =
       IF event.status # "judging" /\ event.status # "completed"
       THEN Respond(@, 400) ELSE [@ EXCEPT !.pc = "vote_save"]]
  /\ UNCHANGED <<subs, nextId, teams, event, nreq>>

\* The existing vote is overwritten or a new one pushed; submission.save().
VoteSave(p) ==
  /\ procs[p].pc = "vote_save"
  /\ LET pr == procs[p]
         loaded == pr.doc
         i == FirstVoteOf(loaded.votes, pr.user)
         vop == IF i > 0 THEN SetVote(i, pr.score) ELSE PushVote(pr.user, pr.score)
         doc == preSave(
                  IF i > 0 THEN [loaded EXCEPT !.votes[i].score = pr.score]
                  ELSE [loaded EXCEPT !.votes =
                          Append(@, [user |-> pr.user, score |-> pr.score])])
     IN IF SaveMatches(subs[pr.sid], loaded, vop, FALSE)
        THEN /\ subs' = [subs EXCEPT ![pr.sid] = Saved(@, loaded, doc, vop, FALSE)]
             /\ procs' = [procs EXCEPT ![p] =
                  [@ EXCEPT !.pc = "lb_find",
                            !.doc = AfterSave(loaded, doc, vop, FALSE)]]
        ELSE /\ subs' = subs
             /\ procs' = [procs EXCEPT ![p] = Respond(@, 500)]
  /\ UNCHANGED <<nextId, teams, event, nreq>>

\* ------------------------------------------------------ POST /:id/judge

\* An authorization check that lets every user judge.
AnyoneJudges(u) == TRUE

IsJudge(u) == u \in Judges \/ u = Organizer

\* Submission.findById(...).populate('event') and the authorization check.
JudgeFind(p, id, u, scores) ==
  /\ Idle(p)
  /\ LET pr == [IdleProc EXCEPT !.kind = "judge", !.sid = id, !.user = u,
                                !.scores = scores]
     IN procs' = [procs EXCEPT ![p] =
          IF ~subs[id].exists THEN Respond(pr, 404)
          ELSE IF ~IsJudge(u) THEN Respond(pr, 403)
          ELSE [pr EXCEPT !.pc = "judge_save", !.doc = subs[id]]]
  /\ UNCHANGED <<subs, nextId, teams, event>>

\* submission.judging.scores.filter(score => score.judge.toString() !== ...)
OthersScores(scores, u) ==
  LET notMine(r) == r.judge # u IN SelectSeq(scores, notMine)

\* scores.forEach(scoreData => submission.judging.scores.push({...}))
NewScores(scores, u) ==
  [i \in 1..Len(scores) |-> ScoreRec(scores[i].criterion, scores[i].score, u)]

\* The judge's own records are replaced and the document saved.  A stored
\* record with no judge (autoJudge writes none) makes score.judge.toString()
\* throw.
JudgeSave(p) ==
  /\ procs[p].pc = "judge_save"
  /\ LET pr == procs[p]
         loaded == pr.doc
         doc == preSave([loaded EXCEPT
                  !.scores = OthersScores(@, pr.user) \o NewScores(pr.scores, pr.user),
                  !.jstatus = "judged"])
     IN IF /\ \A i \in 1..Len(loaded.scores) : loaded.scores[i].judge # NoUser
           /\ SaveMatches(subs[pr.sid], loaded, NoVoteOp, TRUE)
        THEN /\ subs' = [subs EXCEPT ![pr.sid] = Saved(@, loaded, doc, NoVoteOp, TRUE)]
             /\ procs' = [procs EXCEPT ![p] =
                  [@ EXCEPT !.pc = "lb_find",
                            !.doc = AfterSave(loaded, doc, NoVoteOp, TRUE)]]
        ELSE /\ subs' = subs
             /\ procs' = [procs EXCEPT ![p] = Respond(@, 500)]
  /\ UNCHANGED <<nextId, teams, event, nreq>>

\* ------------------------------------------- POST / (create/update submission)

\* Submission.findOne({ team, event }): the first document of the team, 0 if none.
ExistingOf(t) ==
  IF \E id \in SubIds : subs[id].exists /\ subs[id].team = t
  THEN CHOOSE id \in SubIds :
         /\ subs[id].exists /\ subs[id].team = t
         /\ \A k \in SubIds : (subs[k].exists /\ subs[k].team = t) => id <= k
  ELSE 0

\* Requests that found no submission and are about to insert one.
PendingCreates ==
  Cardinality({q \in Procs : procs[q].pc = "submit_save" /\ procs[q].sid = 0})

\* Team.findById (the requester is an active member) and Submission.findOne.
\* A request that will insert is started only while the store has an id left.
SubmitFind(p, t, status, metadata) ==
  /\ Idle(p)
  /\ (teams[t] /\ ExistingOf(t) = 0) => (nextId + PendingCreates) \in SubIds
  /\ LET pr == [IdleProc EXCEPT !.kind = "submit", !.team = t, !.status = status,
                                !.metadata = metadata]
         id == ExistingOf(t)
     IN procs' = [procs EXCEPT ![p] =
          IF ~teams[t] THEN Respond(pr, 404)
          ELSE IF id # 0
          THEN [pr EXCEPT !.pc = "submit_save", !.sid = id, !.doc = subs[id],
                          !.prevStatus = subs[id].status]
          ELSE [pr EXCEPT !.pc = "submit_save"]]
  /\ UNCHANGED <<subs, nextId, teams, event>>

\* The document is updated or created, then await submission.save().
SubmitSave(p) ==
  /\ procs[p].pc = "submit_save"
  /\ LET pr == procs[p]
         loaded == pr.doc
         doc == preSave([loaded EXCEPT !.status = pr.status,
                                       !.metadata = pr.metadata])
         new == preSave(NewSubmission(pr.team, pr.status, pr.metadata))
     IN IF pr.sid = 0
        THEN /\ subs' = [subs EXCEPT ![nextId] = new]
             /\ nextId' = nextId + 1
             /\ procs' = [procs EXCEPT ![p] =
                  [@ EXCEPT !.pc = "submit_event", !.sid = nextId, !.doc = new]]
        ELSE IF SaveMatches(subs[pr.sid], loaded, NoVoteOp, FALSE)
        THEN /\ subs' = [subs EXCEPT ![pr.sid] = Saved(@, loaded, doc, NoVoteOp, FALSE)]
             /\ nextId' = nextId
             /\ procs' = [procs EXCEPT ![p] =
                  [@ EXCEPT !.pc = "submit_event",
                            !.doc = AfterSave(loaded, doc, NoVoteOp, FALSE)]]
        ELSE /\ UNCHANGED <<subs, nextId>>
             /\ procs' = [procs EXCEPT ![p] = Respond(@, 500)]
  /\ UNCHANGED <<teams, event, nreq>>

InList(id, ids) == \E i \in 1..Len(ids) : ids[i] = id

\* if (event.judging.isAutomated && status === 'submitted' && metadata)
AfterEventList(pr) ==
  IF event.isAutomated /\ pr.status = "submitted" /\ pr.metadata.present
  THEN [pr EXCEPT !.pc = "submit_auto"]
  ELSE Respond(pr, 200)

\* await team.save(), which throws when the team is gone, and Event.findById.
SubmitEvent(p) ==
  /\ procs[p].pc = "submit_event"
  /\ procs' = [procs EXCEPT ![p] =
       IF ~teams[@.team] THEN Respond(@, 500)
       ELSE IF InList(@.sid, event.submissions) THEN AfterEventList(@)
       ELSE [@ EXCEPT !.pc = "submit_push"]]
  /\ UNCHANGED <<subs, nextId, teams, event, nreq>>

\* event.submissions.push(submission._id); await event.save(): a $push.
SubmitPush(p) ==
  /\ procs[p].pc = "submit_push"
  /\ event' = [event EXCEPT !.submissions = Append(@, procs[p].sid), !.v = @ + 1]
  /\ procs' = [procs EXCEPT ![p] = AfterEventList(@)]
  /\ UNCHANGED <<subs, nextId, teams, nreq>>

\* await submission.autoJudge(): the score list is assigned, so the save is
\* under the loaded version.
SubmitAuto(p) ==
  /\ procs[p].pc = "submit_auto"
  /\ LET pr == procs[p]
         loaded == pr.doc
         doc == preSave(autoJudge(loaded))
     IN IF SaveMatches(subs[pr.sid], loaded, NoVoteOp, TRUE)
        THEN /\ subs' = [subs EXCEPT ![pr.sid] = Saved(@, loaded, doc, NoVoteOp, TRUE)]
             /\ procs' = [procs EXCEPT ![p] =
                  [@ EXCEPT !.pc = "lb_find",
                            !.doc = AfterSave(loaded, doc, NoVoteOp, TRUE)]]
        ELSE /\ subs' = subs
             /\ procs' = [procs EXCEPT ![p] = Respond(@, 500)]
  /\ UNCHANGED <<nextId, teams, event, nreq>>

\* ---------------------------------------------------------- DELETE /:id

\* Submission.findById(...).populate('team event'); the requester is the team
\* leader or the organizer.  submission.team.leader throws when the team is gone.
DeleteFind(p, id) ==
  /\ Idle(p)
  /\ LET pr == [IdleProc EXCEPT !.kind = "delete", !.sid = id]
     IN procs' = [procs EXCEPT ![p] =
          IF ~subs[id].exists THEN Respond(pr, 404)
          ELSE IF ~teams[subs[id].team] THEN Respond(pr, 500)
          ELSE [pr EXCEPT !.pc = "delete_pull", !.doc = subs[id],
                          !.team = subs[id].team, !.prevStatus = subs[id].status]]
  /\ UNCHANGED <<subs, nextId, teams, event>>

Without(ids, id) == LET keep(x) == x # id IN SelectSeq(ids, keep)

\* await submission.team.save(), then Event.findByIdAndUpdate with $pull.
DeletePull(p) ==
  /\ procs[p].pc = "delete_pull"
  /\ IF teams[procs[p].team]
     THEN /\ event' = [event EXCEPT !.submissions = Without(@, procs[p].sid)]
          /\ procs' = [procs EXCEPT ![p] = [@ EXCEPT !.pc = "delete_doc"]]
     ELSE /\ event' = event
          /\ procs' = [procs EXCEPT ![p] = Respond(@, 500)]
  /\ UNCHANGED <<subs, nextId, teams, nreq>>

\* await Submission.findByIdAndDelete(req.params.id)
DeleteDoc(p) ==
  /\ procs[p].pc = "delete_doc"
  /\ subs' = [subs EXCEPT ![procs[p].sid] = NoDoc]
  /\ procs' = [procs EXCEPT ![p] = [@ EXCEPT !.pc = "lb_find"]]
  /\ UNCHANGED <<nextId, teams, event, nreq>>

\* ----------------------------------------------- DELETE /:id (team route)

\* Team.findByIdAndDelete: the team's submission stays, with a dangling team.
DeleteTeam(t) ==
  /\ teams[t]
  /\ teams' = [teams EXCEPT ![t] = FALSE]
  /\ UNCHANGED <<subs, nextId, event, procs>>

\* ------------------------------------- GET /:id/leaderboard (events route)

\* Event.findById(...).select('leaderboard title')
GetLeaderboardFind(p) ==
  /\ Idle(p)
  /\ procs' = [procs EXCEPT ![p] =
       [IdleProc EXCEPT !.kind = "getLeaderboard", !.pc = "get_save",
                        !.lb = event.leaderboard]]
  /\ UNCHANGED <<subs, nextId, teams, event>>

\* A fetch whose save goes through: the sorted entries are written back, with
\* no version in the condition, as the version key was not selected.
GetLeaderboardSaveWriting(p) ==
  /\ procs[p].pc = "get_save"
  /\ LET lb == AssignRanks(SortDesc(procs[p].lb))
     IN /\ event' = [event EXCEPT !.leaderboard = lb]
        /\ procs' = [procs EXCEPT ![p] = Respond([@ EXCEPT !.lb = lb], 200)]
  /\ UNCHANGED <<subs, nextId, teams, nreq>>

\* The loaded entries are sorted and ranked again, then await event.save().
\* save() runs EventSchema.pre('save'), which reads this.participants.length,
\* this.teams.length and this.submissions.length; the query selected
\* 'leaderboard title' only, so these paths are undefined on the loaded
\* document: the hook throws, nothing is written and the route's catch
\* answers 500.
GetLeaderboardSave(p) ==
  /\ procs[p].pc = "get_save"
  /\ LET lb == AssignRanks(SortDesc(procs[p].lb))
     IN procs' = [procs EXCEPT ![p] = Respond([@ EXCEPT !.lb = lb], 500)]
  /\ UNCHANGED <<subs, nextId, teams, event, nreq>>

\* ------------------------------------- socket.on('requestLeaderboard')

\* Event.findById(eventId): the event document is read; its populates are
\* further reads that follow.
RequestLeaderboardFind(p, s) ==
  /\ Idle(p)
  /\ procs' = [procs EXCEPT ![p] =
       [IdleProc EXCEPT !.kind = "requestLeaderboard", !.pc = "request_emit",
                        !.sock = s, !.lb = event.leaderboard, !.evv = event.v]]
  /\ UNCHANGED <<subs, nextId, teams, event>>

\* The populates have returned: socket.emit('leaderboardUpdate', {eventId,
\* leaderboard: event.leaderboard}) with the leaderboard that was read.
RequestLeaderboardEmit(p) ==
  /\ procs[p].pc = "request_emit"
  /\ sockets' = [sockets EXCEPT ![procs[p].sock].received =
       Append(@, Snapshot("leaderboardUpdate", procs[p].lb, procs[p].evv))]
  /\ procs' = [procs EXCEPT ![p] = Respond(@, 200)]
  /\ UNCHANGED <<subs, nextId, teams, event, nreq>>

\* ---------------------------------------------- socket.on('joinEvent')

\* Event.findById(eventId) finds the event and socket.join puts the socket in
\* the event's room.
JoinEventFind(p, s) ==
  /\ Idle(p)
  /\ procs' = [procs EXCEPT ![p] =
       [IdleProc EXCEPT !.kind = "joinEvent", !.pc = "join_emit", !.sock = s]]
  /\ sockets' = [sockets EXCEPT ![s].joined = TRUE]
  /\ UNCHANGED <<subs, nextId, teams, event>>

\* The second Event.findById with its populates, and socket.emit('eventJoined',
\* {event: eventData}): the event document carries its leaderboard.
JoinEventEmit(p) ==
  /\ procs[p].pc = "join_emit"
  /\ sockets' = [sockets EXCEPT ![procs[p].sock].received =
       Append(@, Snapshot("eventJoined", event.leaderboard, event.v))]
  /\ procs' = [procs EXCEPT ![p] =
       Respond([@ EXCEPT !.lb = event.leaderboard], 200)]
  /\ UNCHANGED <<subs, nextId, teams, event, nreq>>

\* ------------------------------------------------ socket.on('authenticate')

\* jwt.verify(token, ...) and await User.findById(decoded.userId).  The token
\* is that of user u, or one that does not verify (NoUser): the catch emits
\* 'authError'.
AuthenticateFind(p, s, u) ==
  /\ Idle(p)
  /\ sockets[s].open
  /\ LET pr == [IdleProc EXCEPT !.kind = "authenticate", !.sock = s, !.user = u]
     IN procs' = [procs EXCEPT ![p] =
          IF u = NoUser THEN Respond(pr, 401) ELSE [pr EXCEPT !.pc = "auth_set"]]
  /\ UNCHANGED <<subs, nextId, teams, event, sockets, connectedUsers, isOnline>>

\* socket.userId = ...; connectedUsers.set(socket.userId, {socketId, ...}):
\* the entry of the user is replaced by one with this socket's id.
AuthenticateSet(p) ==
  /\ procs[p].pc = "auth_set"
  /\ sockets' = [sockets EXCEPT ![procs[p].sock].userId = procs[p].user]
  /\ connectedUsers' = [connectedUsers EXCEPT ![procs[p].user] = procs[p].sock]
  /\ procs' = [procs EXCEPT ![p] = [@ EXCEPT !.pc = "auth_online"]]
  /\ UNCHANGED <<subs, nextId, teams, event, nreq, isOnline>>

\* await User.findByIdAndUpdate(user._id, {isOnline: true, ...}); the emits.
AuthenticateOnline(p) ==
  /\ procs[p].pc = "auth_online"
  /\ isOnline' = [isOnline EXCEPT ![procs[p].user] = TRUE]
  /\ procs' = [procs EXCEPT ![p] = Respond(@, 200)]
  /\ UNCHANGED <<subs, nextId, teams, event, nreq, sockets, connectedUsers>>

\* ------------------------------------------------- socket.on('disconnect')

\* The socket closes; if (socket.userId) connectedUsers.delete(socket.userId).
DisconnectDelete(p, s) ==
  /\ Idle(p)
  /\ sockets[s].open
  /\ LET u == sockets[s].userId
         pr == [IdleProc EXCEPT !.kind = "disconnect", !.sock = s, !.user = u]
     IN /\ sockets' = [sockets EXCEPT ![s].open = FALSE]
        /\ connectedUsers' = IF u # NoUser
                             THEN [connectedUsers EXCEPT ![u] = NoSocket]
                             ELSE connectedUsers
        /\ procs' = [procs EXCEPT ![p] =
             IF u # NoUser THEN [pr EXCEPT !.pc = "disc_offline"] ELSE Respond(pr, 200)]
  /\ UNCHANGED <<subs, nextId, teams, event, isOnline>>

\* await User.findByIdAndUpdate(socket.userId, {isOnline: false, ...}); the emit.
DisconnectOffline(p) ==
  /\ procs[p].pc = "disc_offline"
  /\ isOnline' = [isOnline EXCEPT ![procs[p].user] = FALSE]
  /\ procs' = [procs EXCEPT ![p] = Respond(@, 200)]
  /\ UNCHANGED <<subs, nextId, teams, event, nreq, sockets, connectedUsers>>

\* --------------------------------- POST /:id/update-leaderboard (events route)

\* Event.findById(req.params.id); the requester is the organizer.
UpdateLeaderboardFind(p) ==
  /\ Idle(p)
  /\ procs' = [procs EXCEPT ![p] =
       [IdleProc EXCEPT !.kind = "updateLeaderboard", !.pc = "upd_populate",
                        !.ids = event.submissions, !.evv = event.v]]
  /\ UNCHANGED <<subs, nextId, teams, event>>

\* .populate('submissions')
UpdateLeaderboardPopulate(p) ==
  /\ procs[p].pc = "upd_populate"
  /\ procs' = [procs EXCEPT ![p] =
       [@ EXCEPT !.pc = "upd_loop", !.snap = Populate(procs[p].ids, subs), !.i = 1]]
  /\ UNCHANGED <<subs, nextId, teams, event, nreq>>

\* One round of the loop: populate('team'); autoJudge() when the submission is
\* still pending; the entry is pushed, and submission.team._id throws when the
\* team is gone.
UpdateLeaderboardStep(p) ==
  /\ procs[p].pc = "upd_loop"
  /\ procs[p].i <= Len(procs[p].snap)
  /\ LET pr == procs[p]
         id == pr.snap[pr.i].id
         loaded == pr.snap[pr.i].doc
         judges == loaded.jstatus = "pending" /\ HasMetadata(loaded)
         doc == IF judges THEN preSave(autoJudge(loaded)) ELSE loaded
         mine == IF judges THEN AfterSave(loaded, doc, NoVoteOp, TRUE) ELSE loaded
     IN IF judges /\ ~SaveMatches(subs[id], loaded, NoVoteOp, TRUE)
        THEN /\ subs' = subs
             /\ procs' = [procs EXCEPT ![p] = Respond(@, 500)]
        ELSE /\ subs' = IF judges
                        THEN [subs EXCEPT ![id] = Saved(@, loaded, doc, NoVoteOp, TRUE)]
                        ELSE subs
             /\ procs' = [procs EXCEPT ![p] =
                  IF ~teams[loaded.team]
                  THEN Respond([@ EXCEPT !.snap[pr.i].doc = mine], 500)
                  ELSE [@ EXCEPT !.snap[pr.i].doc = mine, !.i = @ + 1,
                          !.lb = Append(@, Entry(mine.team, id, mine.totalScore))]]
  /\ UNCHANGED <<nextId, teams, event, nreq>>

\* The sort, the ranks, event.leaderboard = leaderboard and await event.save();
\* here a VersionError reaches the route's catch.
UpdateLeaderboardSave(p) ==
  /\ procs[p].pc = "upd_loop"
  /\ procs[p].i > Len(procs[p].snap)
  /\ LET lb == AssignRanks(SortDesc(procs[p].lb))
     IN IF event.v = procs[p].evv
        THEN /\ event' = [event EXCEPT !.leaderboard = lb, !.v = @ + 1]
             /\ procs' = [procs EXCEPT ![p] =
                  Respond([@ EXCEPT !.lb = lb, !.lbOk = TRUE], 200)]
        ELSE /\ event' = event
             /\ procs' = [procs EXCEPT ![p] = Respond([@ EXCEPT !.lb = lb], 500)]
  /\ UNCHANGED <<subs, nextId, teams, nreq>>

\* ------------------------------------------ the other event routes

\* What a request body for an event may carry: a status or none ("-"), and a
\* leaderboard or none.
EventBodies ==
  {[status |-> "-", hasLb |-> FALSE], [status |-> "upcoming", hasLb |-> FALSE],
   [status |-> "-", hasLb |-> TRUE]}

\* The leaderboard a request body carries.
BodyLeaderboard == AssignRanks(<<Entry("t2", 2, Q(500))>>)

\* new Event(req.body); event.save()
CreateEvent(body) ==
  [NewEvent EXCEPT
     !.status = IF body.status # "-" THEN body.status ELSE @,
     !.leaderboard = IF body.hasLb THEN BodyLeaderboard ELSE @]

\* PUT /:id: Event.findById and the organizer check.
PutEventFind(p, u, body) ==
  /\ Idle(p)
  /\ LET pr == [IdleProc EXCEPT !.kind = "putEvent", !.user = u,
                                !.status = body.status, !.hasLb = body.hasLb]
     IN procs' = [procs EXCEPT ![p] =
          IF u # Organizer THEN Respond(pr, 403)
          ELSE [pr EXCEPT !.pc = "put_save", !.evv = event.v]]
  /\ UNCHANGED <<subs, nextId, teams, event>>

\* Object.assign(event, req.body); event.save(): an assigned leaderboard is
\* written under the loaded version.
PutEventSave(p) ==
  /\ procs[p].pc = "put_save"
  /\ IF procs[p].hasLb /\ event.v # procs[p].evv
     THEN /\ event' = event
          /\ procs' = [procs EXCEPT ![p] = Respond(@, 500)]
     ELSE /\ event' = [event EXCEPT
               !.status = IF procs[p].status # "-" THEN procs[p].status ELSE @,
               !.leaderboard = IF procs[p].hasLb THEN BodyLeaderboard ELSE @,
               !.v = IF procs[p].hasLb THEN @ + 1 ELSE @]
          /\ procs' = [procs EXCEPT ![p] = Respond(@, 200)]
  /\ UNCHANGED <<subs, nextId, teams, nreq>>

\* POST /:id/start, /:id/end, /:id/complete: Event.findById and the organizer
\* check; the new status is 'active', 'judging' or 'completed'.
SetStatusFind(p, u, status) ==
  /\ Idle(p)
  /\ LET pr == [IdleProc EXCEPT !.kind = "setStatus", !.user = u, !.status = status]
     IN procs' = [procs EXCEPT ![p] =
          IF u # Organizer THEN Respond(pr, 403)
          ELSE [pr EXCEPT !.pc = "status_save"]]
  /\ UNCHANGED <<subs, nextId, teams, event>>

\* event.status = ...; event.save()
SetStatusSave(p) ==
  /\ procs[p].pc = "status_save"
  /\ event' = [event EXCEPT !.status = procs[p].status]
  /\ procs' = [procs EXCEPT ![p] = Respond(@, 200)]
  /\ UNCHANGED <<subs, nextId, teams, nreq>>

HasJoined(parts, u) == \E i \in 1..Len(parts) : parts[i] = u

\* POST /:id/join: Event.findById, the already-joined and registration checks,
\* the push of the participant and req.user.save().
JoinFind(p, u) ==
  /\ Idle(p)
  /\ LET pr == [IdleProc EXCEPT !.kind = "join", !.user = u]
     IN procs' = [procs EXCEPT ![p] =
          IF HasJoined(event.participants, u) THEN Respond(pr, 400)
          ELSE IF event.status # "upcoming" THEN Respond(pr, 400)
          ELSE [pr EXCEPT !.pc = "join_save"]]
  /\ UNCHANGED <<subs, nextId, teams, event>>

\* event.save(): the participant is written as a $push.
JoinSave(p) ==
  /\ procs[p].pc = "join_save"
  /\ event' = [event EXCEPT !.participants = Append(@, procs[p].user), !.v = @ + 1]
  /\ procs' = [procs EXCEPT ![p] = Respond(@, 200)]
  /\ UNCHANGED <<subs, nextId, teams, nreq>>

\* POST /:id/leave: Event.findById, the filter of the participants and
\* Team.updateMany.
LeaveFind(p, u) ==
  /\ Idle(p)
  /\ LET others(x) == x # u
     IN procs' = [procs EXCEPT ![p] =
          [IdleProc EXCEPT !.kind = "leave", !.user = u, !.pc = "leave_save",
                           !.evv = event.v,
                           !.parts = SelectSeq(event.participants, others)]]
  /\ UNCHANGED <<subs, nextId, teams, event>>

\* event.save(): the participants array was assigned, so the update carries
\* the loaded version.
LeaveSave(p) ==
  /\ procs[p].pc = "leave_save"
  /\ IF event.v = procs[p].evv
     THEN /\ event' = [event EXCEPT !.participants = procs[p].parts, !.v = @ + 1]
          /\ procs' = [procs EXCEPT ![p] = Respond(@, 200)]
     ELSE /\ event' = event
          /\ procs' = [procs EXCEPT ![p] = Respond(@, 500)]
  /\ UNCHANGED <<subs, nextId, teams, nreq>>

\* ------------------------------------------------ POST /:id/join (team route)

\* Team.findOne({event, 'members.user': user, 'members.status': 'active'})
HasTeam(u) == \E t \in Teams : teams[t] /\ InList(u, teamDocs[t].members)

\* Team.findById(...).populate('event'), the test for space and the test that
\* the user is not a member yet.
JoinTeamFind(p, t, u) ==
  /\ Idle(p)
  /\ LET pr == [IdleProc EXCEPT !.kind = "joinTeam", !.team = t, !.user = u]
     IN procs' = [procs EXCEPT ![p] =
          IF ~teams[t] THEN Respond(pr, 404)
          ELSE IF Len(teamDocs[t].members) >= maxTeamSize THEN Respond(pr, 400)
          ELSE IF InList(u, teamDocs[t].members) THEN Respond(pr, 400)
          ELSE [pr EXCEPT !.pc = "jointeam_existing", !.tdoc = teamDocs[t]]]
  /\ UNCHANGED <<subs, nextId, teams, event, teamDocs>>

\* The user has no team in this event yet.
JoinTeamExisting(p) ==
  /\ procs[p].pc = "jointeam_existing"
  /\ procs' = [procs EXCEPT ![p] =
       IF HasTeam(@.user) THEN Respond(@, 400) ELSE [@ EXCEPT !.pc = "jointeam_save"]]
  /\ UNCHANGED <<subs, nextId, teams, event, nreq, teamDocs>>

\* team.members.push({...}); await team.save(): a $push, sent without the
\* version in its condition; the version is incremented.  Then the team is
\* added to req.user.currentTeams.
JoinTeamSave(p) ==
  /\ procs[p].pc = "jointeam_save"
  /\ teamDocs' = [teamDocs EXCEPT ![procs[p].team].members = Append(@, procs[p].user),
                                  ![procs[p].team].v = @ + 1]
  /\ procs' = [procs EXCEPT ![p] = Respond(@, 200)]
  /\ UNCHANGED <<subs, nextId, teams, event, nreq>>

\* -------------------------- POST /:id/invitation/:invitationId/respond

\* Team.findById(...).populate('event'), team.invitations.id(...), the checks
\* of the invitation, invitation.status = response and, for an acceptance,
\* the test for space.
InvitationFind(p, t, k, u, response) ==
  /\ Idle(p)
  /\ LET pr == [IdleProc EXCEPT !.kind = "respond", !.team = t, !.user = u,
                                !.inv = k, !.response = response]
         td == teamDocs[t]
     IN procs' = [procs EXCEPT ![p] =
          IF ~teams[t] THEN Respond(pr, 404)
          ELSE IF k > Len(td.invitations) THEN Respond(pr, 404)
          ELSE IF td.invitations[k].user # u THEN Respond(pr, 403)
          ELSE IF td.invitations[k].status # "pending" THEN Respond(pr, 400)
          ELSE IF response # "accepted"
          THEN [pr EXCEPT !.pc = "respond_save", !.tdoc = td]
          ELSE IF Len(td.members) >= maxTeamSize THEN Respond(pr, 400)
          ELSE [pr EXCEPT !.pc = "respond_existing", !.tdoc = td]]
  /\ UNCHANGED <<subs, nextId, teams, event, teamDocs>>

\* The user has no team in this event yet; the member record is pushed to the
\* loaded document and the team added to req.user.currentTeams.
InvitationExisting(p) ==
  /\ procs[p].pc = "respond_existing"
  /\ procs' = [procs EXCEPT ![p] =
       IF HasTeam(@.user) THEN Respond(@, 400) ELSE [@ EXCEPT !.pc = "respond_save"]]
  /\ UNCHANGED <<subs, nextId, teams, event, nreq, teamDocs>>

\* await team.save().  The status of the invitation was changed by position,
\* so the update carries the loaded version in its condition and a document
\* another save has moved on makes it throw; the push of an acceptance
\* increments the version.
InvitationSave(p) ==
  /\ procs[p].pc = "respond_save"
  /\ LET pr == procs[p]
         accepted == pr.response = "accepted"
     IN IF teamDocs[pr.team].v # pr.tdoc.v
        THEN /\ teamDocs' = teamDocs
             /\ procs' = [procs EXCEPT ![p] = Respond(@, 500)]
        ELSE /\ teamDocs' = [teamDocs EXCEPT
                  ![pr.team].invitations[pr.inv].status = pr.response,
                  ![pr.team].members = IF accepted THEN Append(@, pr.user) ELSE @,
                  ![pr.team].v = IF accepted THEN @ + 1 ELSE @]
             /\ procs' = [procs EXCEPT ![p] = Respond(@, 200)]
  /\ UNCHANGED <<subs, nextId, teams, event, nreq>>

\* --------------------------------------------------------------- the system

\* The response has been sent; the request is over.
Finish(p) ==
  /\ procs[p].pc = "done"
  /\ procs' = [procs EXCEPT ![p] = IdleProc]
  /\ UNCHANGED <<subs, nextId, teams, event, nreq>>

\* The step of a route handler: nothing is emitted to a socket (no route
\* holds the io object), the history is extended only where requests race
\* (SpecRacing), and the team documents and the presence of the users are
\* touched by their own handlers only.
Keep == UNCHANGED <<committed, sockets, teamDocs, connectedUsers, isOnline>>

\* The step of a socket handler, which may join a room or emit.
Emits == UNCHANGED <<committed, teamDocs, connectedUsers, isOnline>>

\* The state this step commits is added to the history.
Record ==
  /\ committed' = committed \cup {RankedLeaderboard(Populate(event'.submissions, subs'))}
  /\ UNCHANGED <<sockets, teamDocs, connectedUsers, isOnline>>

\* One request at a time: a request is admitted when none is in flight.
Admit == Quiet /\ nreq < MaxReqs /\ nreq' = nreq + 1

Next ==
  \/ \E id \in SubIds, u \in Voters, s \in VoteInputs : Admit /\ VoteFind(1, id, u, s) /\ Keep
  \/ \E id \in SubIds, u \in Judges \cup {Outsider}, s \in JudgeInputs :
       Admit /\ JudgeFind(1, id, u, s) /\ Keep
  \/ \E t \in Teams, st \in StatusInputs, m \in MetaInputs :
       Admit /\ SubmitFind(1, t, st, m) /\ Keep
  \/ \E id \in SubIds : Admit /\ DeleteFind(1, id) /\ Keep
  \/ \E t \in Teams : Admit /\ DeleteTeam(t) /\ Keep
  \/ Admit /\ GetLeaderboardFind(1) /\ Keep
  \/ Admit /\ UpdateLeaderboardFind(1) /\ Keep
  \/ VoteEvent(1) /\ Keep
  \/ VoteSave(1) /\ Keep
  \/ JudgeSave(1) /\ Keep
  \/ SubmitSave(1) /\ Keep
  \/ SubmitEvent(1) /\ Keep
  \/ SubmitPush(1) /\ Keep
  \/ SubmitAuto(1) /\ Keep
  \/ DeletePull(1) /\ Keep
  \/ DeleteDoc(1) /\ Keep
  \/ GetLeaderboardSave(1) /\ Keep
  \/ UpdateLeaderboardPopulate(1) /\ Keep
  \/ UpdateLeaderboardStep(1) /\ Keep
  \/ UpdateLeaderboardSave(1) /\ Keep
  \/ LbFind(1) /\ Keep
  \/ LbPopulate(1) /\ Keep
  \/ LbSave(1) /\ Keep
  \/ Finish(1) /\ Keep

Spec == Init /\ [][Next]_vars

\* The same, with the requests that change submissions or read the
\* leaderboard only: no team is deleted and the organizer's route is not used.
NextMutations ==
  \/ \E id \in SubIds, u \in Voters, s \in VoteInputs : Admit /\ VoteFind(1, id, u, s) /\ Keep
  \/ \E id \in SubIds, u \in Judges \cup {Outsider}, s \in JudgeInputs :
       Admit /\ JudgeFind(1, id, u, s) /\ Keep
  \/ \E t \in Teams, st \in StatusInputs, m \in MetaInputs :
       Admit /\ SubmitFind(1, t, st, m) /\ Keep
  \/ \E id \in SubIds : Admit /\ DeleteFind(1, id) /\ Keep
  \/ Admit /\ GetLeaderboardFind(1) /\ Keep
  \/ VoteEvent(1) /\ Keep
  \/ VoteSave(1) /\ Keep
  \/ JudgeSave(1) /\ Keep
  \/ SubmitSave(1) /\ Keep
  \/ SubmitEvent(1) /\ Keep
  \/ SubmitPush(1) /\ Keep
  \/ SubmitAuto(1) /\ Keep
  \/ DeletePull(1) /\ Keep
  \/ DeleteDoc(1) /\ Keep
  \/ GetLeaderboardSave(1) /\ Keep
  \/ LbFind(1) /\ Keep
  \/ LbPopulate(1) /\ Keep
  \/ LbSave(1) /\ Keep
  \/ Finish(1) /\ Keep

SpecMutations == Init /\ [][NextMutations]_vars

\* ------------------------------------------------- overlapping requests

\* The submission of team t as its first POST / leaves it: with automated
\* judging on, a submitted one with metadata has been through autoJudge.
Posted(t, st, m) ==
  LET new == preSave(NewSubmission(t, st, m))
  IN IF st = "submitted" /\ m.present
     THEN AfterSave(new, preSave(autoJudge(new)), NoVoteOp, TRUE)
     ELSE new

Recomputes(st, m) == IF st = "submitted" /\ m.present THEN 1 ELSE 0

\* The event after team t1 and then team t2 have posted their submissions,
\* one request after the other: two pushes to event.submissions, and a rebuild
\* of the leaderboard after each autoJudge.
InitPosted(st1, m1, st2, m2) ==
  /\ subs = [id \in SubIds |->
               IF id = 1 THEN Posted("t1", st1, m1)
               ELSE IF id = 2 THEN Posted("t2", st2, m2) ELSE NoDoc]
  /\ nextId = 3
  /\ teams = [t \in Teams |-> TRUE]
  /\ event = [NewEvent EXCEPT
       !.submissions = <<1, 2>>,
       !.leaderboard =
          IF Recomputes(st2, m2) = 1
          THEN RankedLeaderboard(Populate(<<1, 2>>, subs))
          ELSE IF Recomputes(st1, m1) = 1
          THEN RankedLeaderboard(Populate(<<1>>, subs))
          ELSE <<>>,
       !.v = 2 + Recomputes(st1, m1) + Recomputes(st2, m2)]
  /\ procs = [p \in Procs |-> IdleProc]
  /\ nreq = 0
  /\ committed = {<<>>, RankedLeaderboard(Populate(<<1>>, subs)),
                  RankedLeaderboard(Populate(<<1, 2>>, subs))}
  /\ sockets = Unconnected
  /\ teamDocs = NewTeams
  /\ connectedUsers = [u \in Voters |-> NoSocket]
  /\ isOnline = [u \in Voters |-> FALSE]

\* A request is admitted while another is in flight; it takes the first free slot.
AdmitFree(p) ==
  /\ Idle(p)
  /\ \A q \in Procs : q < p => ~Idle(q)
  /\ nreq < MaxOverlapped
  /\ nreq' = nreq + 1

\* Overlapping vote requests on two submitted submissions without scores.
InitVoting == InitPosted("submitted", NoMeta, "submitted", NoMeta)

NextVoting ==
  \/ \E p \in Pair, id \in SubIds, u \in Voters, s \in VoteInputs :
       AdmitFree(p) /\ VoteFind(p, id, u, s) /\ Keep
  \/ \E p \in Procs : VoteEvent(p) /\ Keep
  \/ \E p \in Procs : VoteSave(p) /\ Keep
  \/ \E p \in Procs : LbFind(p) /\ Keep
  \/ \E p \in Procs : LbPopulate(p) /\ Keep
  \/ \E p \in Procs : LbSave(p) /\ Keep
  \/ \E p \in Procs : Finish(p) /\ Keep

SpecVoting == InitVoting /\ [][NextVoting]_vars

\* Overlapping judge requests (and votes, whose pushes move the version the
\* judge's save is checked against) on the first of the two submissions.
NextJudging ==
  \/ \E p \in Pair, u \in Judges, s \in JudgeInputs :
       AdmitFree(p) /\ JudgeFind(p, 1, u, s) /\ Keep
  \/ \E p \in Procs : JudgeSave(p) /\ Keep
  \/ \E p \in Pair : AdmitFree(p) /\ VoteFind(p, 1, "u1", 5) /\ Keep
  \/ \E p \in Procs : VoteEvent(p) /\ Keep
  \/ \E p \in Procs : VoteSave(p) /\ Keep
  \/ \E p \in Procs : LbFind(p) /\ Keep
  \/ \E p \in Procs : LbPopulate(p) /\ Keep
  \/ \E p \in Procs : LbSave(p) /\ Keep
  \/ \E p \in Procs : Finish(p) /\ Keep

SpecJudging == InitVoting /\ [][NextJudging]_vars

\* Votes and deletions overlapping on two submissions that autoJudge has given
\* the same total; every step that commits adds to the history.
InitRacing == InitPosted("submitted", [EmptyMeta EXCEPT !.innovation = 8],
                         "submitted", [EmptyMeta EXCEPT !.innovation = 8])

NextRacing ==
  \/ \E p \in Procs, id \in SubIds, s \in RacingVotes :
       AdmitFree(p) /\ VoteFind(p, id, "u1", s) /\ Record
  \/ \E p \in Procs, id \in SubIds : AdmitFree(p) /\ DeleteFind(p, id) /\ Record
  \/ \E p \in Procs : VoteEvent(p) /\ Record
  \/ \E p \in Procs : VoteSave(p) /\ Record
  \/ \E p \in Procs : DeletePull(p) /\ Record
  \/ \E p \in Procs : DeleteDoc(p) /\ Record
  \/ \E p \in Procs : LbFind(p) /\ Record
  \/ \E p \in Procs : LbPopulate(p) /\ Record
  \/ \E p \in Procs : LbSave(p) /\ Record
  \/ \E p \in Procs : Finish(p) /\ Record

SpecRacing == InitRacing /\ [][NextRacing]_vars

\* Leaderboard reads (HTTP and socket) overlapping votes on the two ranked
\* submissions.
NextReading ==
  \/ \E p \in Pair : AdmitFree(p) /\ GetLeaderboardFind(p) /\ Keep
  \/ \E p \in Pair : AdmitFree(p) /\ RequestLeaderboardFind(p, "s1") /\ Keep
  \/ \E p \in Pair, id \in SubIds, s \in RacingVotes :
       AdmitFree(p) /\ VoteFind(p, id, "u1", s) /\ Keep
  \/ \E p \in Procs : GetLeaderboardSave(p) /\ Keep
  \/ \E p \in Procs : RequestLeaderboardEmit(p) /\ Emits
  \/ \E p \in Procs : VoteEvent(p) /\ Keep
  \/ \E p \in Procs : VoteSave(p) /\ Keep
  \/ \E p \in Procs : LbFind(p) /\ Keep
  \/ \E p \in Procs : LbPopulate(p) /\ Keep
  \/ \E p \in Procs : LbSave(p) /\ Keep
  \/ \E p \in Procs : Finish(p) /\ Keep

SpecReading == InitRacing /\ [][NextReading]_vars

\* The event routes, one request at a time, on an event created from a request
\* body, with submissions and votes that make the helper rebuild the
\* leaderboard.
InitOrganizing ==
  /\ subs = [id \in SubIds |-> NoDoc]
  /\ nextId = 1
  /\ teams = [t \in Teams |-> TRUE]
  /\ \E body \in EventBodies : event = CreateEvent(body)
  /\ procs = [p \in Procs |-> IdleProc]
  /\ nreq = 0
  /\ committed = {<<>>}
  /\ sockets = Unconnected
  /\ teamDocs = NewTeams
  /\ connectedUsers = [u \in Voters |-> NoSocket]
  /\ isOnline = [u \in Voters |-> FALSE]

NextOrganizing ==
  \/ \E u \in {Organizer, Outsider}, body \in EventBodies :
       Admit /\ PutEventFind(1, u, body) /\ Keep
  \/ \E u \in {Organizer, Outsider}, st \in {"active", "judging", "completed"} :
       Admit /\ SetStatusFind(1, u, st) /\ Keep
  \/ \E u \in Voters : Admit /\ JoinFind(1, u) /\ Keep
  \/ \E u \in Voters : Admit /\ LeaveFind(1, u) /\ Keep
  \/ \E t \in Teams, m \in MetaInputs : Admit /\ SubmitFind(1, t, "submitted", m) /\ Keep
  \/ \E id \in SubIds, s \in RacingVotes : Admit /\ VoteFind(1, id, "u1", s) /\ Keep
  \/ PutEventSave(1) /\ Keep
  \/ SetStatusSave(1) /\ Keep
  \/ JoinSave(1) /\ Keep
  \/ LeaveSave(1) /\ Keep
  \/ SubmitSave(1) /\ Keep
  \/ SubmitEvent(1) /\ Keep
  \/ SubmitPush(1) /\ Keep
  \/ SubmitAuto(1) /\ Keep
  \/ VoteEvent(1) /\ Keep
  \/ VoteSave(1) /\ Keep
  \/ LbFind(1) /\ Keep
  \/ LbPopulate(1) /\ Keep
  \/ LbSave(1) /\ Keep
  \/ Finish(1) /\ Keep

SpecOrganizing == InitOrganizing /\ [][NextOrganizing]_vars

\* Overlapping POST / requests of the two teams on an event without
\* submissions.
NextSubmitting ==
  \/ \E p \in Pair, t \in Teams, st \in StatusInputs, m \in MetaInputs :
       AdmitFree(p) /\ SubmitFind(p, t, st, m) /\ Keep
  \/ \E p \in Procs : SubmitSave(p) /\ Keep
  \/ \E p \in Procs : SubmitEvent(p) /\ Keep
  \/ \E p \in Procs : SubmitPush(p) /\ Keep
  \/ \E p \in Procs : SubmitAuto(p) /\ Keep
  \/ \E p \in Procs : LbFind(p) /\ Keep
  \/ \E p \in Procs : LbPopulate(p) /\ Keep
  \/ \E p \in Procs : LbSave(p) /\ Keep
  \/ \E p \in Procs : Finish(p) /\ Keep

SpecSubmitting == Init /\ [][NextSubmitting]_vars

\* ------------------------------------------------- votes of any body
\* Vote requests one after another on two posted submissions; the body of a
\* request may carry a score in range, one out of range, or none.

NextBallots ==
  \/ \E id \in SubIds, u \in Voters, s \in BallotInputs :
       Admit /\ VoteFind(1, id, u, s) /\ Keep
  \/ VoteEvent(1) /\ Keep
  \/ VoteSave(1) /\ Keep
  \/ LbFind(1) /\ Keep
  \/ LbPopulate(1) /\ Keep
  \/ LbSave(1) /\ Keep
  \/ Finish(1) /\ Keep

SpecBallots == InitVoting /\ [][NextBallots]_vars

\* ------------------------------------------------- the voting window
\* Votes overlapping the organizer's status changes, on an event that is
\* active and has two ranked submissions.

InitWindow ==
  /\ subs = [id \in SubIds |->
               Posted(IF id = 1 THEN "t1" ELSE "t2", "submitted",
                      [EmptyMeta EXCEPT !.innovation = 8])]
  /\ nextId = 3
  /\ teams = [t \in Teams |-> TRUE]
  /\ event = [NewEvent EXCEPT
       !.status = "active", !.submissions = <<1, 2>>,
       !.leaderboard = RankedLeaderboard(Populate(<<1, 2>>, subs)), !.v = 4]
  /\ procs = [p \in Procs |-> IdleProc]
  /\ nreq = 0
  /\ committed = {<<>>}
  /\ sockets = Unconnected
  /\ teamDocs = NewTeams
  /\ connectedUsers = [u \in Voters |-> NoSocket]
  /\ isOnline = [u \in Voters |-> FALSE]

NextWindow ==
  \/ \E p \in Pair, id \in SubIds, s \in RacingVotes :
       AdmitFree(p) /\ VoteFind(p, id, "u1", s) /\ Keep
  \/ \E p \in Pair, st \in {"active", "judging", "completed"} :
       AdmitFree(p) /\ SetStatusFind(p, Organizer, st) /\ Keep
  \/ \E p \in Procs : VoteEvent(p) /\ Keep
  \/ \E p \in Procs : VoteSave(p) /\ Keep
  \/ \E p \in Procs : SetStatusSave(p) /\ Keep
  \/ \E p \in Procs : LbFind(p) /\ Keep
  \/ \E p \in Procs : LbPopulate(p) /\ Keep
  \/ \E p \in Procs : LbSave(p) /\ Keep
  \/ \E p \in Procs : Finish(p) /\ Keep

SpecWindow == InitWindow /\ [][NextWindow]_vars

\* ------------------------------------------------- sockets
\* Sockets join the event's room and ask for the leaderboard while votes on a
\* ranked submission rebuild it.

NextSockets ==
  \/ \E p \in Procs, s \in Sockets : AdmitFree(p) /\ JoinEventFind(p, s) /\ Emits
  \/ \E p \in Procs, s \in Sockets :
       AdmitFree(p) /\ RequestLeaderboardFind(p, s) /\ Keep
  \/ \E p \in Procs, sc \in RacingVotes :
       AdmitFree(p) /\ VoteFind(p, 1, "u1", sc) /\ Keep
  \/ \E p \in Procs : JoinEventEmit(p) /\ Emits
  \/ \E p \in Procs : RequestLeaderboardEmit(p) /\ Emits
  \/ \E p \in Procs : VoteEvent(p) /\ Keep
  \/ \E p \in Procs : VoteSave(p) /\ Keep
  \/ \E p \in Procs : LbFind(p) /\ Keep
  \/ \E p \in Procs : LbPopulate(p) /\ Keep
  \/ \E p \in Procs : LbSave(p) /\ Keep
  \/ \E p \in Procs : Finish(p) /\ Keep

SpecSockets == InitRacing /\ [][NextSockets]_vars

\* ------------------------------------------------- autoJudge by itself
\* submission.autoJudge() called on one stored submission, over the metadata
\* blocks a request body can store: each rating absent (0) or set, the
\* technologies listed or not, linesOfCode any number (the schema sets no
\* minimum for it).

MetaBlocks ==
  {[present |-> TRUE, innovation |-> a, technologies |-> t, linesOfCode |-> l,
    completeness |-> c, documentation |-> d, presentation |-> e] :
     a \in {0, 8}, t \in {0, 3, 6}, l \in {-100, 0, 300, 6000},
     c \in {0, 9}, d \in {0, 5}, e \in {0, 7}}

\* The records autoJudge pushes to its list, as it writes them: maxScore is
\* 100 and timestamp is Date.now() at the call.
autoJudgeRecords(m, now) ==
  [i \in 1..Len(autoJudgeScores(m)) |->
     [criterion |-> autoJudgeScores(m)[i].criterion,
      score |-> autoJudgeScores(m)[i].score,
      maxScore |-> 100, timestamp |-> now]]

\* A draft with its metadata, posted and never judged.
InitAutoJudge ==
  /\ \E m \in MetaBlocks :
       subs = [id \in SubIds |->
                 IF id = 1 THEN preSave(NewSubmission("t1", "draft", m)) ELSE NoDoc]
  /\ nextId = 2
  /\ teams = [t \in Teams |-> TRUE]
  /\ event = [NewEvent EXCEPT !.submissions = <<1>>, !.v = 1]
  /\ procs = [p \in Procs |-> IdleProc]
  /\ nreq = 0
  /\ committed = {<<>>}
  /\ sockets = Unconnected
  /\ teamDocs = NewTeams
  /\ connectedUsers = [u \in Voters |-> NoSocket]
  /\ isOnline = [u \in Voters |-> FALSE]

\* One call of the method on the stored document, at time now: the list is
\* built from this.metadata and assigned, the status set, the document saved.
\* The caller keeps the list as it was built and the saved document.
AutoJudgeCall(p, now) ==
  /\ Idle(p)
  /\ nreq < MaxOverlapped
  /\ nreq' = nreq + 1
  /\ LET loaded == subs[1]
         doc == preSave(autoJudge(loaded))
     IN /\ subs' = [subs EXCEPT ![1] = Saved(@, loaded, doc, NoVoteOp, TRUE)]
        /\ procs' = [procs EXCEPT ![p] =
             Respond([IdleProc EXCEPT
                        !.kind = "autoJudge", !.sid = 1,
                        !.scores = autoJudgeRecords(loaded.metadata, now),
                        !.doc = AfterSave(loaded, doc, NoVoteOp, TRUE)], 200)]
  /\ UNCHANGED <<nextId, teams, event>>

\* The clock does not go back: the call number nreq + 1 happens at nreq or at
\* nreq + 1.
NextAutoJudge ==
  \/ \E p \in Procs, now \in {nreq, nreq + 1} : AutoJudgeCall(p, now) /\ Keep
  \/ \E p \in Procs : Finish(p) /\ Keep

SpecAutoJudge == InitAutoJudge /\ [][NextAutoJudge]_vars

\* ------------------------------------------------- judged, then posted again
\* Requests of judge j1 and POST / requests of team t1, overlapping, on the
\* team's posted submission, which has no scores yet: a POST / with metadata
\* runs autoJudge on a document the judge may have scored.

NextRejudging ==
  \/ \E p \in Pair, s \in JudgeInputs :
       AdmitFree(p) /\ JudgeFind(p, 1, "j1", s) /\ Keep
  \/ \E p \in Procs : JudgeSave(p) /\ Keep
  \/ \E p \in Pair, m \in MetaInputs :
       AdmitFree(p) /\ SubmitFind(p, "t1", "submitted", m) /\ Keep
  \/ \E p \in Procs : SubmitSave(p) /\ Keep
  \/ \E p \in Procs : SubmitEvent(p) /\ Keep
  \/ \E p \in Procs : SubmitAuto(p) /\ Keep
  \/ \E p \in Procs : LbFind(p) /\ Keep
  \/ \E p \in Procs : LbPopulate(p) /\ Keep
  \/ \E p \in Procs : LbSave(p) /\ Keep
  \/ \E p \in Procs : Finish(p) /\ Keep

SpecRejudging == InitVoting /\ [][NextRejudging]_vars

\* ------------------------------------------------- the two recomputes
\* Votes and the organizer's POST /:id/update-leaderboard, one request after
\* the other, on two submissions autoJudge has judged: no request finds a
\* pending submission, so the route judges none.

NextRecomputing ==
  \/ \E id \in SubIds, u \in Voters, s \in VoteInputs :
       Admit /\ VoteFind(1, id, u, s) /\ Keep
  \/ VoteEvent(1) /\ Keep
  \/ VoteSave(1) /\ Keep
  \/ LbFind(1) /\ Keep
  \/ LbPopulate(1) /\ Keep
  \/ LbSave(1) /\ Keep
  \/ Admit /\ UpdateLeaderboardFind(1) /\ Keep
  \/ UpdateLeaderboardPopulate(1) /\ Keep
  \/ UpdateLeaderboardStep(1) /\ Keep
  \/ UpdateLeaderboardSave(1) /\ Keep
  \/ Finish(1) /\ Keep

SpecRecomputing == InitRacing /\ [][NextRecomputing]_vars

\* ------------------------------------------------- joining a team
\* Requests to join team t1 and answers to its invitation, overlapping.  The
\* team has its leader as only member and the event allows two.  A step of
\* a team route leaves the history, the sockets and the presence as they are.

NextJoining ==
  \/ \E p \in Procs, t \in Teams, u \in Voters :
       AdmitFree(p) /\ JoinTeamFind(p, t, u) /\ UNCHANGED <<committed, sockets, connectedUsers, isOnline>>
  \/ \E p \in Procs, u \in Voters, r \in {"accepted", "declined"} :
       AdmitFree(p) /\ InvitationFind(p, "t1", 1, u, r) /\ UNCHANGED <<committed, sockets, connectedUsers, isOnline>>
  \/ \E p \in Procs : JoinTeamExisting(p) /\ UNCHANGED <<committed, sockets, connectedUsers, isOnline>>
  \/ \E p \in Procs : JoinTeamSave(p) /\ UNCHANGED <<committed, sockets, connectedUsers, isOnline>>
  \/ \E p \in Procs : InvitationExisting(p) /\ UNCHANGED <<committed, sockets, connectedUsers, isOnline>>
  \/ \E p \in Procs : InvitationSave(p) /\ UNCHANGED <<committed, sockets, connectedUsers, isOnline>>
  \/ \E p \in Procs : Finish(p) /\ Keep

SpecJoining == Init /\ [][NextJoining]_vars

\* ------------------------------------------------- presence
\* The two sockets authenticate, each with the token of a user or with one
\* that does not verify, and disconnect; the handlers overlap.  A step of a
\* presence handler leaves the history and the team documents as they are.

NextPresence ==
  \/ \E p \in Procs, s \in Sockets, u \in Voters \cup {NoUser} :
       AdmitFree(p) /\ AuthenticateFind(p, s, u) /\ UNCHANGED <<committed, teamDocs>>
  \/ \E p \in Procs, s \in Sockets : AdmitFree(p) /\ DisconnectDelete(p, s) /\ UNCHANGED <<committed, teamDocs>>
  \/ \E p \in Procs : AuthenticateSet(p) /\ UNCHANGED <<committed, teamDocs>>
  \/ \E p \in Procs : AuthenticateOnline(p) /\ UNCHANGED <<committed, teamDocs>>
  \/ \E p \in Procs : DisconnectOffline(p) /\ UNCHANGED <<committed, teamDocs>>
  \/ \E p \in Procs : Finish(p) /\ Keep

SpecPresence == Init /\ [][NextPresence]_vars

\* ------------------------------------------------------------------ claims

\* The requests whose handler rebuilds the leaderboard.
Rebuilds(pr) ==
  pr.kind \in {"vote", "judge", "submit", "delete", "updateLeaderboard"}

\* A request has just returned, having rebuilt and saved the leaderboard.
Rebuilt(pr) == pr.pc = "done" /\ Rebuilds(pr) /\ pr.lbOk

\* The document a rebuild read for the submission of an entry.
RECURSIVE DocIn(_, _)
DocIn(snap, id) ==
  IF snap = <<>> THEN NoDoc
  ELSE IF Head(snap).id = id THEN Head(snap).doc ELSE DocIn(Tail(snap), id)

\* C1: every stored submission has judging.totalScore equal to the sum of the
\* scores in judging.scores, 0 when the list is empty.
C1_TotalIsSum ==
  \A id \in SubIds :
    subs[id].exists => subs[id].totalScore = SumScores(subs[id].scores)

\* C2: in every state, also while vote requests overlap, a submission's
\* voting.votes holds at most one record per user.
C2_UniqueVoters ==
  \A id \in SubIds : \A i, j \in 1..Len(subs[id].votes) :
    subs[id].votes[i].user = subs[id].votes[j].user => i = j

C4_SortedByCombined ==
  \A p \in Procs :
    Rebuilt(procs[p]) =>
      \A i \in 1..Len(procs[p].lb), j \in 1..Len(procs[p].lb) :
        i < j =>
          ~QLess(Combined(DocIn(procs[p].snap, procs[p].lb[i].submission)),
                 Combined(DocIn(procs[p].snap, procs[p].lb[j].submission)))

\* C5: the entry at position i of the stored leaderboard (1-based here) has
\* rank i: the ranks are 1..n, no gaps, no rank shared.
C5_RanksArePositions ==
  \A i \in 1..Len(event.leaderboard) : event.leaderboard[i].rank = i

\* C5, its case: a leaderboard of several entries, two of them with equal scores.
C5_Witness ==
  /\ Len(event.leaderboard) >= 2
  /\ event.leaderboard[1].totalScore = event.leaderboard[2].totalScore
  /\ \E p \in Procs : Rebuilt(procs[p])

\* C6: the leaderboard a rebuild has written holds exactly one entry for each
\* submission it read with status submitted and a positive combined score, and
\* no other entry.
C6_ExactlyTheEligible ==
  \A p \in Procs :
    Rebuilt(procs[p]) =>
      LET lb == procs[p].lb
          snap == procs[p].snap
      IN /\ \A i \in 1..Len(snap) :
              (snap[i].doc.status = "submitted" /\ QPos(Combined(snap[i].doc)))
                => Cardinality({k \in 1..Len(lb) : lb[k].submission = snap[i].id}) = 1
         /\ \A k \in 1..Len(lb) :
              LET d == DocIn(snap, lb[k].submission)
              IN d.exists /\ d.status = "submitted" /\ QPos(Combined(d))

\* C7: when no request is in flight the stored leaderboard is the ranking of
\* the event's stored submissions.
C7_NoDrift ==
  Quiet => event.leaderboard = RankedLeaderboard(Populate(event.submissions, subs))

\* C8: whatever the interleaving of the requests, the leaderboard the event
\* holds is the ranking of a state of its submissions that was committed at
\* some moment.
C8_PersistedWasCommitted == event.leaderboard \in committed

\* C9: a vote or judge request that returns success has rebuilt and saved the
\* leaderboard after its own save.
C9_RebuiltBeforeSuccess ==
  \A p \in Procs :
    (procs[p].pc = "done" /\ procs[p].kind \in {"vote", "judge"} /\ procs[p].res = 200)
      => procs[p].lbOk

\* C10: once a delete request, or a request that took a submitted submission
\* to another status, has returned success, the leaderboard holds no entry of
\* that submission.
C10_RemovedFromLeaderboard ==
  \A p \in Procs :
    (/\ procs[p].pc = "done" /\ procs[p].res = 200
     /\ \/ procs[p].kind = "delete"
        \/ /\ procs[p].kind = "submit"
           /\ procs[p].prevStatus = "submitted"
           /\ procs[p].status # "submitted")
      => \A k \in 1..Len(event.leaderboard) :
           event.leaderboard[k].submission # procs[p].sid

\* A delete request for the submission is still running.
Deleting(id) ==
  \E p \in Procs : /\ procs[p].kind = "delete" /\ procs[p].sid = id
                   /\ procs[p].pc \notin {"idle", "done"}

\* C11: once the request that deleted a submission has completed, no entry of
\* the event's leaderboard references that submission, whatever recomputes and
\* reads overlapped with the deletion.
C11_DeletedNotReferenced ==
  \A id \in SubIds :
    (id < nextId /\ ~subs[id].exists /\ ~Deleting(id))
      => \A k \in 1..Len(event.leaderboard) :
           event.leaderboard[k].submission # id

\* The positions of a request inside updateEventLeaderboard.
InRecompute(pr) == pr.pc \in {"lb_find", "lb_populate", "lb_save"}

\* C12: a recompute that fails leaves the event's leaderboard as it was when
\* the recompute started: its reads write nothing, and the step at which it
\* fails (a missing team, a rejected save) writes nothing either.
C12_FailedRecomputeWritesNothing ==
  [][\A p \in Procs :
       /\ (InRecompute(procs[p]) /\ procs[p].pc # "lb_save" /\ procs'[p] # procs[p])
            => event' = event
       /\ (InRecompute(procs[p]) /\ procs'[p].pc = "done" /\ ~procs'[p].lbOk)
            => event' = event]_vars

\* A recompute has failed while the event had a leaderboard with entries.
C12_Witness ==
  \E p \in Procs :
    /\ procs[p].pc = "done" /\ procs[p].kind \in {"vote", "judge", "submit", "delete"}
    /\ procs[p].snap # <<>> /\ ~procs[p].lbOk
    /\ event.leaderboard # <<>>

\* C13: when the recompute started by a vote, judge, submission or delete
\* request fails, the request answers with an error status, not a success.
C13_FailureIsReported ==
  [][\A p \in Procs :
       (InRecompute(procs[p]) /\ procs'[p].pc = "done" /\ ~procs'[p].lbOk)
         => procs'[p].res >= 400]_vars

\* C14: the leaderboard fetch over HTTP and the socket's requestLeaderboard
\* leave the event's stored leaderboard as it is, also when they overlap a
\* recompute.
C14_ReadersDoNotWrite ==
  [][\A p \in Procs :
       (\/ procs[p].pc = "get_save" /\ procs'[p].pc = "done"
        \/ procs[p].pc = "idle" /\ procs'[p].kind = "requestLeaderboard"
        \/ procs[p].pc = "request_emit" /\ procs'[p].pc = "done")
         => event'.leaderboard = event.leaderboard]_vars

\* A fetch has returned that loaded the leaderboard before a recompute
\* replaced it: what it loaded is no longer what is stored.
C14_Witness ==
  \E p \in Procs :
    /\ procs[p].kind = "getLeaderboard" /\ procs[p].pc = "done"
    /\ Len(procs[p].lb) = 2 /\ Len(event.leaderboard) = 2
    /\ procs[p].lb # event.leaderboard

\* C15: a new event has an empty leaderboard whatever its request body holds,
\* and a step that changes the event's leaderboard is the save of a recompute;
\* the event's update, start, end, complete, join and leave never change it.
C15_LeaderboardOnlyRecomputed ==
  /\ event.leaderboard = <<>>
  /\ [][event'.leaderboard # event.leaderboard =>
          \E p \in Procs : procs[p].pc \in {"lb_save", "upd_loop"}]_vars

\* The user has a record in the vote list.
HasVoteOf(votes, u) == \E i \in 1..Len(votes) : votes[i].user = u

\* C16: when the vote requests of two different users on one submission have
\* both answered with success, both users' records are in voting.votes and
\* publicVotes is the mean of the stored votes.
C16_NoLostVotes ==
  \A p, q \in Procs :
    (/\ p # q
     /\ procs[p].pc = "done" /\ procs[p].kind = "vote" /\ procs[p].res = 200
     /\ procs[q].pc = "done" /\ procs[q].kind = "vote" /\ procs[q].res = 200
     /\ procs[p].sid = procs[q].sid /\ procs[p].user # procs[q].user)
      => LET d == subs[procs[p].sid]
         IN /\ HasVoteOf(d.votes, procs[p].user)
            /\ HasVoteOf(d.votes, procs[q].user)
            /\ d.publicVotes = QDivInt(Q(SumVotes(d.votes)), Len(d.votes))

\* C17: in every state, also while create requests of one team overlap, at
\* most one submission document exists for a team of the event.
C17_OneSubmissionPerTeam ==
  \A i, j \in SubIds :
    (subs[i].exists /\ subs[j].exists /\ subs[i].team = subs[j].team) => i = j

\* C18: when the stored leaderboard is the result of a recompute over the
\* submissions as they are, and the recompute runs again over the same
\* submissions, its save leaves the leaderboard as it was: same entries, same
\* order, same totalScore and rank values.
C18_RecomputeIdempotent ==
  [][\A p \in Procs :
       (/\ procs[p].pc = "lb_save" /\ procs'[p].pc = "done" /\ procs'[p].lbOk
        /\ procs[p].snap = Populate(event.submissions, subs)
        /\ event.leaderboard = RankedLeaderboard(Populate(event.submissions, subs)))
         => event'.leaderboard = event.leaderboard]_vars

\* The team of the only, ranked submission has posted it again as submitted,
\* and the recompute of that request has been saved.
C18_Witness ==
  \E p \in Procs :
    /\ Rebuilt(procs[p]) /\ procs[p].kind = "submit"
    /\ procs[p].prevStatus = "submitted" /\ procs[p].status = "submitted"
    /\ Len(event.submissions) = 1 /\ Len(event.leaderboard) = 1
    /\ event.v = 3

\* The position of a submission among the documents a rebuild read, in the
\* order of event.submissions.
PosIn(snap, id) == CHOOSE k \in 1..Len(snap) : snap[k].id = id

\* The request has returned after updateEventLeaderboard saved its leaderboard.
HelperRebuilt(pr) ==
  Rebuilt(pr) /\ pr.kind \in {"vote", "judge", "submit", "delete"}

\* C19: in the leaderboard updateEventLeaderboard writes, entries with equal
\* combined score stand in the order of their submissions in the event's
\* submission list.
C19_TiesKeepListOrder ==
  \A p \in Procs :
    HelperRebuilt(procs[p]) =>
      \A i, j \in 1..Len(procs[p].lb) :
        (i < j /\ procs[p].lb[i].totalScore = procs[p].lb[j].totalScore)
          => PosIn(procs[p].snap, procs[p].lb[i].submission)
               < PosIn(procs[p].snap, procs[p].lb[j].submission)

\* The helper has written a leaderboard whose two entries are tied.
C19_Witness ==
  \E p \in Procs :
    /\ HelperRebuilt(procs[p])
    /\ Len(procs[p].lb) = 2
    /\ procs[p].lb[1].totalScore = procs[p].lb[2].totalScore
    /\ event.leaderboard = procs[p].lb

\* C20: every entry of a leaderboard written by a recompute (the helper
\* updateEventLeaderboard or POST /:id/update-leaderboard) has totalScore equal
\* to its submission's judging.totalScore + voting.publicVotes * 10.
C20_EntryIsCombinedScore ==
  \A p \in Procs :
    Rebuilt(procs[p]) =>
      \A k \in 1..Len(procs[p].lb) :
        procs[p].lb[k].totalScore
          = Combined(DocIn(procs[p].snap, procs[p].lb[k].submission))

\* C21: a vote request of a user who already has a record on the submission,
\* run with no other request in between, keeps the number of records, leaves
\* the user's record holding the new score and every other record as it was,
\* and the average the request returns is the mean of the stored scores.
C21_RevoteOverwrites ==
  [][\A p \in Procs :
       (/\ procs[p].pc = "vote_save" /\ procs'[p].pc # "vote_save"
        /\ HasVoteOf(subs[procs[p].sid].votes, procs[p].user))
         => LET old == subs[procs[p].sid].votes
                i == CHOOSE k \in 1..Len(old) : old[k].user = procs[p].user
                new == [old EXCEPT ![i].score = procs[p].score]
            IN /\ procs'[p].pc = "lb_find"
               /\ subs'[procs[p].sid].votes = new
               /\ subs'[procs[p].sid].publicVotes
                    = QDivInt(Q(SumVotes(new)), Len(new))
               /\ procs'[p].doc.publicVotes
                    = QDivInt(Q(SumVotes(new)), Len(new))]_vars

\* Three requests were made: the only submission was created, and two votes
\* each rebuilt the leaderboard.  The submission holds one record, so the
\* second vote was its voter's re-vote, and it was answered with the average.
C21_Witness ==
  \E p \in Procs :
    /\ procs[p].pc = "done" /\ procs[p].kind = "vote" /\ procs[p].res = 200
    /\ nextId = 2 /\ Len(event.submissions) = 1
    /\ subs[1].metadata = NoMeta /\ subs[1].jstatus = "pending"
    /\ subs[1].votes = <<[user |-> procs[p].user, score |-> 5]>>
    /\ subs[1].v = 1 /\ event.v = 3 /\ nreq = 3
    /\ procs[p].doc.publicVotes = Q(5)

\* A vote request whose score is missing or outside 1..5.
BadScore(pr) == pr.kind = "vote" /\ pr.score \notin 1..5

\* C22: every stored vote record has a score within 1..5, and a vote request
\* whose score is outside 1..5 or absent is answered 400 by the range check,
\* before anything is read or written.
C22_VoteScoreInRange ==
  /\ \A id \in SubIds : \A i \in 1..Len(subs[id].votes) :
       subs[id].votes[i].score \in 1..5
  /\ \A p \in Procs :
       BadScore(procs[p]) => procs[p].pc = "done" /\ procs[p].res = 400

\* Event.status lets votes in.
VotingOpen == event.status \in {"judging", "completed"}

\* The request is a vote that has been answered 400 or 404.
VoteRejected(pr) == pr.kind = "vote" /\ pr.pc = "done" /\ pr.res \in {400, 404}

\* C23: a vote request whose voting-window check reads an event that is not
\* judging or completed is answered 400 in that step, which changes neither
\* the submissions nor the event; a rejected request writes nothing afterwards;
\* and the votes of a submission change only in the save of a request that
\* passed its check, so no vote is recorded for a request checked while the
\* event was upcoming or active.
C23_VotingWindow ==
  [][\A p \in Procs :
       /\ (procs[p].pc = "vote_event" /\ procs'[p] # procs[p] /\ ~VotingOpen)
            => /\ procs'[p].pc = "done" /\ procs'[p].res = 400
               /\ subs' = subs /\ event' = event
       /\ (procs'[p].pc = "vote_save" /\ procs[p].pc # "vote_save")
            => procs[p].pc = "vote_event" /\ VotingOpen
       /\ (VoteRejected(procs[p]) /\ procs'[p] # procs[p])
            => procs'[p] = IdleProc /\ subs' = subs /\ event' = event
       /\ (\E id \in SubIds : subs'[id].votes # subs[id].votes)
            => \E q \in Procs : procs[q].pc = "vote_save" /\ procs'[q].pc # "vote_save"
    ]_vars

\* A vote with a score in range has been rejected while the event is active,
\* and the organizer's request that will open the window is in flight.
C23_Witness ==
  \E p, q \in Procs :
    /\ procs[p].kind = "vote" /\ procs[p].pc = "done" /\ procs[p].res = 400
    /\ procs[p].score \in 1..5
    /\ event.status = "active"
    /\ procs[q].pc = "status_save" /\ procs[q].status = "judging"

\* C24: a judge request of a user who is neither on the event's judge list
\* nor its organizer is answered 403 (404 when the submission is missing) in
\* the step that reads the submission, and neither that step nor any later
\* step of the request changes a submission (its score list, totalScore and
\* judging status) or the event's leaderboard.
C24_OutsiderCannotJudge ==
  [][\A p \in Procs :
       /\ (procs'[p].kind = "judge" /\ procs'[p].user = Outsider
           /\ procs'[p] # procs[p])
            => /\ procs'[p].pc = "done" /\ procs'[p].res \in {403, 404}
               /\ subs' = subs /\ event' = event
       /\ (procs[p].kind = "judge" /\ procs[p].user = Outsider
           /\ procs'[p] # procs[p])
            => procs'[p] = IdleProc /\ subs' = subs /\ event' = event
    ]_vars

\* The outsider's request on a judged, ranked submission has been answered 403.
C24_Witness ==
  \E p \in Procs :
    /\ procs[p].kind = "judge" /\ procs[p].user = Outsider
    /\ procs[p].pc = "done" /\ procs[p].res = 403 /\ procs[p].scores # <<>>
    /\ subs[procs[p].sid].scores # <<>>
    /\ subs[procs[p].sid].scores[1].judge \in Judges
    /\ Len(event.leaderboard) > 0

\* The last message emitted to a socket carries this leaderboard.
LastReceived(sk, lb) ==
  Len(sk.received) > 0 /\ sk.received[Len(sk.received)].lb = lb

\* C25: the step in which a recompute completes (the rebuilt leaderboard is
\* saved) emits that leaderboard to every socket that is in the event's room.
C25_BroadcastAfterRecompute ==
  [][\A p \in Procs :
       (procs[p].pc = "lb_save" /\ procs'[p].pc = "done" /\ procs'[p].lbOk)
         => \A s \in Sockets :
              sockets[s].joined
                => /\ Len(sockets'[s].received) = Len(sockets[s].received) + 1
                   /\ LastReceived(sockets'[s], event'.leaderboard)]_vars

\* C26: the leaderboards emitted to one socket come in the order in which they
\* were persisted (a leaderboard read from an older version of the event is
\* never emitted after a different one read from a newer version), and a
\* socket whose joinEvent has run has been sent the stored leaderboard.
C26_SnapshotsInOrder ==
  /\ \A s \in Sockets :
       LET r == sockets[s].received
       IN \A i, j \in 1..Len(r) :
            i < j => r[i].v <= r[j].v \/ r[i].lb = r[j].lb
  /\ \A p \in Procs :
       (procs[p].kind = "joinEvent" /\ procs[p].pc = "done")
         => \E i \in 1..Len(sockets[procs[p].sock].received) :
              sockets[procs[p].sock].received[i].name = "eventJoined"

\* The round of the update-leaderboard loop that request pr is about to run
\* calls autoJudge on a submission that was stored without metadata.
JudgesWithoutMetadata(pr) ==
  /\ pr.pc = "upd_loop" /\ pr.i <= Len(pr.snap)
  /\ pr.snap[pr.i].doc.jstatus = "pending"
  /\ ~pr.snap[pr.i].doc.metadata.present

\* C27: autoJudge on a submission without metadata fails: the request that
\* called it is answered with an error, and the stored submissions (score
\* list, totals, judging status) are as they were.
C27_AutoJudgeNeedsMetadata ==
  [][\A p \in Procs :
       (JudgesWithoutMetadata(procs[p]) /\ procs'[p] # procs[p])
         => /\ procs'[p].pc = "done" /\ procs'[p].res = 500
            /\ subs' = subs]_vars

\* The request is a call of autoJudge that has returned.
Judged(pr) == pr.kind = "autoJudge" /\ pr.pc = "done"

\* C28: two calls of autoJudge on a submission whose metadata did not change
\* build the same list (same records in the same order, every field equal)
\* and leave the same totalScore and averageScore.
C28_AutoJudgeIdempotent ==
  \A p, q \in Procs :
    (Judged(procs[p]) /\ Judged(procs[q]))
      => /\ procs[p].scores = procs[q].scores
         /\ procs[p].doc.totalScore = procs[q].doc.totalScore
         /\ procs[p].doc.averageScore = procs[q].doc.averageScore

\* The criteria of autoJudge with the score the rule of each gives; a rating
\* of 0 and linesOfCode 0 stand for an absent metric.
Criteria ==
  {"Innovation", "Technical Complexity", "Completeness", "Documentation",
   "Presentation"}

MetricPresent(m, c) ==
  CASE c = "Innovation" -> m.innovation # 0
    [] c = "Technical Complexity" -> m.linesOfCode # 0
    [] c = "Completeness" -> m.completeness # 0
    [] c = "Documentation" -> m.documentation # 0
    [] c = "Presentation" -> m.presentation # 0

MetricScore(m, c) ==
  CASE c = "Innovation" -> Q(m.innovation * 10)
    [] c = "Technical Complexity" ->
         QAdd(QMin(Q(m.technologies * 10), Q(50)),
              QMin(Norm(m.linesOfCode, 100), Q(50)))
    [] c = "Completeness" -> Q(m.completeness * 10)
    [] c = "Documentation" -> Q(m.documentation * 10)
    [] c = "Presentation" -> Q(m.presentation * 10)

\* C29: after autoJudge the score list holds exactly one record for each
\* metric the metadata has and none for a metric it lacks, each record's score
\* is the one the rule of its criterion gives, and each score is within
\* 0..100.
C29_AutoJudgeScores ==
  \A p \in Procs :
    Judged(procs[p]) =>
      LET m == subs[1].metadata
          s == subs[1].scores
      IN /\ \A c \in Criteria :
              Cardinality({i \in 1..Len(s) : s[i].criterion = c})
                = IF MetricPresent(m, c) THEN 1 ELSE 0
         /\ \A i \in 1..Len(s) :
              /\ s[i].criterion \in Criteria
              /\ s[i].score = MetricScore(m, s[i].criterion)
              /\ ~QLess(s[i].score, Q(0)) /\ ~QLess(Q(100), s[i].score)

\* C30: a create/update request goes on to autoJudge (and the recompute after
\* it) only when the event's automated judging is on and the request has just
\* turned the submission to submitted: the request says submitted and the
\* submission was new or stored with another status.
C30_AutoJudgeOnlyOnTransition ==
  [][\A p \in Procs :
       (procs'[p].pc = "submit_auto" /\ procs[p].pc # "submit_auto")
         => /\ event.isAutomated
            /\ procs[p].status = "submitted"
            /\ procs[p].prevStatus # "submitted"]_vars

\* C31: in every stored submission judging.averageScore is judging.totalScore
\* divided by the number of records of judging.scores, and 0 when the list is
\* empty, also when it has become empty again.
C31_AverageIsTotalOverCount ==
  \A id \in SubIds :
    subs[id].exists =>
      subs[id].averageScore
        = IF Len(subs[id].scores) > 0
          THEN QDivInt(subs[id].totalScore, Len(subs[id].scores))
          ELSE Zero

\* C32: in every stored submission voting.publicVotes is the mean of the
\* scores of the records of voting.votes, and 0 when there is none.
C32_PublicVotesIsMean ==
  \A id \in SubIds :
    subs[id].exists =>
      subs[id].publicVotes
        = IF Len(subs[id].votes) > 0
          THEN QDivInt(Q(SumVotes(subs[id].votes)), Len(subs[id].votes))
          ELSE Zero

\* C33: the leaderboard fetch of an existing event succeeds and returns the
\* stored entries.
C33_FetchSucceeds ==
  \A p \in Procs :
    (procs[p].kind = "getLeaderboard" /\ procs[p].pc = "done")
      => procs[p].res = 200 /\ procs[p].lb = event.leaderboard

\* C34: when the autoJudge call of a POST / has saved, the stored score list
\* of the submission is exactly the records autoJudge builds from the
\* document's metadata, none of them with a judge, and judging.status is
\* judged: whatever the list held before, records of judges included, is gone.
C34_AutoJudgeOverwrites ==
  [][\A p \in Procs :
       (procs[p].pc = "submit_auto" /\ procs'[p].pc = "lb_find") =>
         LET d == subs'[procs[p].sid]
         IN /\ d.scores = autoJudgeScores(procs[p].doc.metadata)
            /\ \A i \in 1..Len(d.scores) : d.scores[i].judge = NoUser
            /\ d.jstatus = "judged"]_vars

\* A judge's request stored its records and a POST / that loaded the document
\* after it has since run autoJudge: only records without a judge are stored.
C34_Witness ==
  \E p, q \in Procs :
    /\ procs[q].kind = "judge" /\ procs[q].pc = "done" /\ procs[q].res = 200
    /\ Len(procs[q].scores) > 0
    /\ procs[p].kind = "submit" /\ procs[p].pc = "lb_find"
    /\ procs[p].sid = procs[q].sid
    /\ procs[p].doc.v = procs[q].doc.v + 1
    /\ Len(subs[procs[p].sid].scores) > 0
    /\ \A i \in 1..Len(subs[procs[p].sid].scores) :
         subs[procs[p].sid].scores[i].judge = NoUser

\* C35: a judge request of a judge of the event on an existing submission is
\* answered 200, whatever records the submission's score list holds, those
\* autoJudge stored without a judge included.
C35_JudgeRequestSucceeds ==
  \A p \in Procs :
    (/\ procs[p].kind = "judge" /\ procs[p].pc = "done"
     /\ IsJudge(procs[p].user) /\ procs[p].doc.exists) => procs[p].res = 200

\* C36: when every submission of the event is judged, the leaderboard the
\* organizer's POST /:id/update-leaderboard stores is the one
\* updateEventLeaderboard computes from the same stored submissions: the same
\* entries with the same totals, in the same order with the same ranks.
C36_RecomputesAgree ==
  [][\A p \in Procs :
       (/\ procs[p].kind = "updateLeaderboard"
        /\ procs[p].pc = "upd_loop" /\ procs'[p].pc = "done" /\ procs'[p].res = 200
        /\ \A i \in 1..Len(event.submissions) :
             subs[event.submissions[i]].jstatus = "judged")
       => event'.leaderboard = RankedLeaderboard(Populate(event.submissions, subs))]_vars

\* C37: no step moves the event's status to an earlier one in the order
\* upcoming, active, judging, completed.
C37_StatusMovesForward ==
  [][LET rank(st) == CASE st = "upcoming" -> 0 [] st = "active" -> 1
                       [] st = "judging" -> 2 [] OTHER -> 3
     IN rank(event'.status) >= rank(event.status)]_vars

\* C38: in every reachable state, also while join requests and answers to
\* invitations overlap, no team has more active members than the event's
\* maxTeamSize.
C38_TeamWithinCapacity ==
  \A t \in Teams : Len(teamDocs[t].members) <= maxTeamSize

\* C39: when no handler is running, a user has an entry in connectedUsers
\* exactly when a socket authenticated as that user is still connected, and
\* is marked online exactly then; so a user with two authenticated sockets
\* stays registered and online when one of them disconnects.
C39_PresenceMatchesSockets ==
  Quiet =>
    \A u \in Voters :
      LET live == \E s \in Sockets : sockets[s].open /\ sockets[s].userId = u
      IN /\ (connectedUsers[u] # NoSocket) <=> live
         /\ isOnline[u] <=> live

====
